---- MODULE Spec2Model ----
(***************************************************************************)
(* A model of pbtxtjs, a parser for the protocol-buffer text format.       *)
(*                                                                         *)
(* Text is a sequence of one-character strings.  The Tokenizer is a record *)
(* holding the fields of the Tokenizer class; every method is an operator  *)
(* from a tokenizer record to a result record  [tk, val, err]  where err   *)
(* is <<>> (no exception) or <<e>> (the ParseError e was thrown).          *)
(* A target message is a function from property names to values; a        *)
(* property that is missing from the DOMAIN is undefined.                *)
(***************************************************************************)
EXTENDS Integers, Sequences, FiniteSets, TLC

VARIABLES
    input,      \* the (family, fragments) the text of this call was built from
    text,       \* the text given to parse()
    options,    \* the ParserOptions given to parse()
    before,     \* the target message as it was when parse() was called
    message,    \* the target message (mutated in place by the parser)
    tokenizer,  \* the Tokenizer that parseLines constructed
    pc,         \* "call" | "parsing" | "returned" | "thrown"
    returned,   \* <<m>> once parse() has returned m, else <<>>
    error       \* <<e>> once parse() has thrown e, else <<>>

vars == <<input, text, options, before, message, tokenizer, pc, returned, error>>

-----------------------------------------------------------------------------
(* Characters                                                              *)

LOWER == {"a","b","c","d","e","f","g","h","i","j","k","l","m",
          "n","o","p","q","r","s","t","u","v","w","x","y","z"}
UPPER == {"A","B","C","D","E","F","G","H","I","J","K","L","M",
          "N","O","P","Q","R","S","T","U","V","W","X","Y","Z"}
DIGITS == {"0","1","2","3","4","5","6","7","8","9"}
OCT_DIGITS == {"0","1","2","3","4","5","6","7"}
HEX_DIGITS == DIGITS \cup {"a","b","c","d","e","f","A","B","C","D","E","F"}
PUNCT == {"!","\"","#","$","%","&","'","(",")","*","+",",","-",".","/",":",";",
          "<","=",">","?","@","[","\\","]","^","_","{","|","}","~"}

\* The characters \s matches, among those of the alphabet.
WHITESPACE == {" ", "\t", "\r", "\f"}
\* The characters . does not match.
LINE_TERMINATORS == {"\n", "\r"}

ALPHABET == LOWER \cup UPPER \cup DIGITS \cup PUNCT \cup WHITESPACE \cup {"\n"}

\* [a-zA-Z_]
IDENT_START == LOWER \cup UPPER \cup {"_"}
\* [0-9a-zA-Z_]  (also \w)
WORD == IDENT_START \cup DIGITS
\* [0-9a-zA-Z_+-]
IDENT_REST == WORD \cup {"+", "-"}
\* [0-9+-]
NUM_START == DIGITS \cup {"+", "-"}
\* [0-9a-zA-Z_.+-]
NUM_REST == IDENT_REST \cup {"."}

_QUOTES == {"'", "\""}


\* const x = v: the value v is computed once and Body is applied to it.
With(v_, Body(_)) == Body(v_)

\* The number of consecutive characters of s, from index i on, that are in C.
RunLen(s, i, C) ==
    (CHOOSE j \in i..(Len(s) + 1) :
         /\ j = Len(s) + 1 \/ s[j] \notin C
         /\ \A m \in i..(j - 1) : s[m] \in C) - i

\* s.substring(from) with a 0-based from.
Substring(s, from) == SubSeq(s, from + 1, Len(s))

AllIn(s, C) == \A i \in 1..Len(s) : s[i] \in C

StartsWith(s, p) == Len(s) >= Len(p) /\ SubSeq(s, 1, Len(p)) = p

\* text.split('\n'), from index i of s on.
RECURSIVE SplitFrom(_, _)
SplitFrom(s, i) ==
    With(RunLen(s, i, ALPHABET \ {"\n"}), LAMBDA n :
        IF i + n > Len(s) THEN <<SubSeq(s, i, Len(s))>>
        ELSE <<SubSeq(s, i, i + n - 1)>> \o SplitFrom(s, i + n + 1))

SplitLines(s) == SplitFrom(s, 1)

-----------------------------------------------------------------------------
(* ParseError                                                              *)

\* new ParseError(message, line, column): line and column are <<>> when
\* undefined and <<n>> otherwise; the message is prefixed by "<line>:<column> : "
\* when a line is given, which loc holds as <<line, column>>.
ParseError(msg, line, column) ==
    [name    |-> "ParseError",
     message |-> [loc  |-> IF line # <<>> THEN line \o column ELSE <<>>,
                  text |-> msg],
     line    |-> line,
     column  |-> column]

\* The text of an error message: its template and the value interpolated.
Msg(kind, arg) == [kind |-> kind, arg |-> arg]

NoErr == <<>>
Threw(r) == r.err # <<>>

\* A result: the tokenizer after the call, the value returned, the exception.
Ret(tk, val) == [tk |-> tk, val |-> val, err |-> NoErr]
Throw(tk, e) == [tk |-> tk, val |-> FALSE, err |-> <<e>>]

\* throw e, where e is a ParseError just made.  The tokenizer record keeps,
\* in raised, the first ParseError thrown since it was constructed: a
\* history of the run, which no code reads.
Raise(tk, e) ==
    Throw([tk EXCEPT !.raised = IF @ = <<>> THEN <<e>> ELSE @], e)

-----------------------------------------------------------------------------
(* Tokenizer                                                               *)

\* A _popLine with an if in the place of its while: it takes one line, also
\* when that line is empty.
PopOneLine(tk) ==
    IF Len(tk.current_line) = 0 \/ tk.column >= Len(tk.current_line)
    THEN IF Len(tk.lines) = 0
         THEN [tk EXCEPT !.current_line = <<>>, !.more_lines = FALSE]
         ELSE [tk EXCEPT !.current_line = Head(tk.lines),
                         !.lines = Tail(tk.lines),
                         !.line = @ + 1,
                         !.column = 0]
    ELSE tk

RECURSIVE _popLine(_)
_popLine(tk) ==
    IF Len(tk.current_line) = 0 \/ tk.column >= Len(tk.current_line)
    THEN IF Len(tk.lines) = 0
         THEN [tk EXCEPT !.current_line = <<>>, !.more_lines = FALSE]
         ELSE _popLine([tk EXCEPT !.current_line = Head(tk.lines),
                                  !.lines = Tail(tk.lines),
                                  !.line = @ + 1,
                                  !.column = 0])
    ELSE tk

\* The end (exclusive, 1-based) of the match of (?:\s|#.*)+ that starts at
\* index i of s; i itself when nothing matches there.
RECURSIVE WhitespaceOrCommentEnd(_, _)
WhitespaceOrCommentEnd(s, i) ==
    IF i > Len(s) THEN i
    ELSE IF s[i] \in WHITESPACE THEN WhitespaceOrCommentEnd(s, i + 1)
    ELSE IF s[i] = "#"
         THEN WhitespaceOrCommentEnd(
                  s, i + 1 + RunLen(s, i + 1, ALPHABET \ LINE_TERMINATORS))
    ELSE i

\* A tokenizer without comments: /^\s+/ in the place of the expression below.
WhitespaceOnly(s) == RunLen(s, 1, WHITESPACE)

\* The length of match[0] of _WHITESPACE_OR_COMMENT when match.index === 0,
\* and 0 when there is no match at index 0.
_WHITESPACE_OR_COMMENT(s) == WhitespaceOrCommentEnd(s, 1) - 1

RECURSIVE _skipWhitespace(_)
_skipWhitespace(tk) ==
    With(_popLine(tk), LAMBDA t :
        IF ~t.more_lines THEN t
        ELSE With(_WHITESPACE_OR_COMMENT(Substring(t.current_line, t.column)),
                  LAMBDA n : IF n > 0 THEN _skipWhitespace([t EXCEPT !.column = @ + n])
                             ELSE t))

\* Alternative 1 of _TOKEN at index 0: [a-zA-Z_][0-9a-zA-Z_+-]*
IdentifierLen(s) ==
    IF s[1] \in IDENT_START THEN 1 + RunLen(s, 2, IDENT_REST) ELSE 0

\* Alternative 2 of _TOKEN at index 0: ([0-9+-]|(\.[0-9]))[0-9a-zA-Z_.+-]*
NumberLen(s) ==
    IF s[1] \in NUM_START THEN 1 + RunLen(s, 2, NUM_REST)
    ELSE IF s[1] = "." /\ Len(s) >= 2 /\ s[2] \in DIGITS
         THEN 2 + RunLen(s, 3, NUM_REST)
    ELSE 0

\* Where ([^q\n\\]|\\.)* stops, matching greedily from index i.
RECURSIVE StringBodyEnd(_, _, _)
StringBodyEnd(s, i, q) ==
    IF i > Len(s) THEN i
    ELSE IF s[i] = "\\"
         THEN IF i + 1 <= Len(s) /\ s[i + 1] \notin LINE_TERMINATORS
              THEN StringBodyEnd(s, i + 2, q)
              ELSE i
    ELSE IF s[i] = q \/ s[i] = "\n" THEN i
    ELSE StringBodyEnd(s, i + 1, q)

\* Alternatives 3 and 4 of _TOKEN at index 0: q([^q\n\\]|\\.)*(q|\\?$)
\* Giving back iterations of the star never makes the tail match, so the
\* greedy stop decides.
QuotedLen(s, q) ==
    IF s[1] # q THEN 0
    ELSE With(StringBodyEnd(s, 2, q), LAMBDA p :
             IF p <= Len(s) /\ s[p] = q THEN p
             ELSE IF p > Len(s) THEN Len(s)
             ELSE IF s[p] = "\\" /\ p = Len(s) THEN p
             ELSE 0)

\* The first of the lengths n that is not 0, and 1 when all are.
FirstMatch(n) ==
    IF \A i \in 1..Len(n) : n[i] = 0 THEN 1
    ELSE n[CHOOSE i \in 1..Len(n) : n[i] > 0 /\ \A j \in 1..(i - 1) : n[j] = 0]

\* match[0] of _TOKEN.exec(s) when match.index === 0, else s[0]; s is not
\* empty.  The alternatives are tried in their order.
_TOKEN(s) ==
    SubSeq(s, 1, FirstMatch(<<IdentifierLen(s), NumberLen(s),
                              QuotedLen(s, "\""), QuotedLen(s, "'")>>))

\* A nextToken that sets the column to the length of the token it leaves,
\* where the code adds that length to the column.
ColumnAssigned(tk) ==
    With(_skipWhitespace([tk EXCEPT !.previous_line = tk.line,
                                    !.previous_column = tk.column,
                                    !.column = Len(tk.token)]),
         LAMBDA t :
             IF ~t.more_lines THEN [t EXCEPT !.token = <<>>]
             ELSE IF Substring(t.current_line, t.column) = <<>>
                  THEN [t EXCEPT !.token = <<>>]
             ELSE [t EXCEPT !.token = _TOKEN(Substring(t.current_line, t.column))])

nextToken(tk) ==
    With(_skipWhitespace([tk EXCEPT !.previous_line = tk.line,
                                    !.previous_column = tk.column,
                                    !.column = @ + Len(tk.token)]),
         LAMBDA t :
             IF ~t.more_lines THEN [t EXCEPT !.token = <<>>]
             ELSE IF Substring(t.current_line, t.column) = <<>>
                  THEN [t EXCEPT !.token = <<>>]
             ELSE [t EXCEPT !.token = _TOKEN(Substring(t.current_line, t.column))])

\* new Tokenizer(lines)
Tokenizer(lines) ==
    nextToken(_popLine([lines |-> lines,
                        line |-> -1,
                        column |-> 0,
                        token |-> <<>>,
                        current_line |-> <<>>,
                        more_lines |-> TRUE,
                        previous_line |-> 0,
                        previous_column |-> 0,
                        raised |-> <<>>]))

atEnd(tk) == tk.token = <<>>

lookingAt(tk, token) == tk.token = token

parseError(tk, msg) == ParseError(msg, <<tk.line + 1>>, <<tk.column + 1>>)

\* An error at the 0-based position of the previous token.
ErrorAtInternalPosition(tk, msg) ==
    ParseError(msg, <<tk.previous_line>>, <<tk.previous_column>>)

parseErrorPreviousToken(tk, msg) ==
    ParseError(msg, <<tk.previous_line + 1>>, <<tk.previous_column + 1>>)

\* A tryConsume that reads the next token whatever the current one is.
ConsumeAnyway(tk, token) == Ret(nextToken(tk), tk.token = token)

tryConsume(tk, token) ==
    IF tk.token = token THEN Ret(nextToken(tk), TRUE) ELSE Ret(tk, FALSE)

consume(tk, token) ==
    With(tryConsume(tk, token), LAMBDA r :
        IF ~r.val THEN Raise(r.tk, parseError(r.tk, Msg("Expected \"%s\".", token)))
        ELSE r)

\* _IDENTIFIER.test(s): the pattern is not anchored, so it looks for an
\* identifier anywhere in s.
_IDENTIFIER(s) == \E i \in 1..Len(s) : s[i] \in IDENT_START

consumeIdentifier(tk) ==
    IF ~_IDENTIFIER(tk.token)
    THEN Raise(tk, parseError(tk, Msg("Expected identifier.", <<>>)))
    ELSE Ret(nextToken(tk), tk.token)

\* /^\w+$/.test(result)
consumeIdentifierOrNumber(tk) ==
    IF ~(Len(tk.token) >= 1 /\ AllIn(tk.token, WORD))
    THEN Raise(tk, parseError(tk, Msg("Expected identifier or number, got %s.", tk.token)))
    ELSE Ret(nextToken(tk), tk.token)

-----------------------------------------------------------------------------
(* JavaScript numbers and strings                                          *)
(*                                                                         *)
(* An integer magnitude is its sequence of decimal digits, most significant*)
(* first and without leading zeros (zero is <<0>>), so that values beyond  *)
(* 2^31 can be told apart.  A number value is exact: an integer, a decimal *)
(* fraction mag * 10^scale (scale < 0), an infinity or NaN.                *)

Min2(a, b) == IF a < b THEN a ELSE b

Reverse(s) == [i \in 1..Len(s) |-> s[Len(s) + 1 - i]]

\* A digit sequence without its leading zeros.
Canon(d) ==
    IF \A i \in 1..Len(d) : d[i] = 0 THEN <<0>>
    ELSE SubSeq(d, 1 + RunLen(d, 1, {0}), Len(d))

\* Arithmetic is done on limbs: the digits of a magnitude in base 10^4, least
\* significant first.
DigitOrZero(d, i) == IF i >= 1 /\ i <= Len(d) THEN d[i] ELSE 0

Limbs(d) ==
    [k \in 1..((Len(d) + 3) \div 4) |->
        DigitOrZero(d, Len(d) - 4 * (k - 1))
        + 10 * DigitOrZero(d, Len(d) - 4 * (k - 1) - 1)
        + 100 * DigitOrZero(d, Len(d) - 4 * (k - 1) - 2)
        + 1000 * DigitOrZero(d, Len(d) - 4 * (k - 1) - 3)]

FromLimbs(l) ==
    Canon([i \in 1..(4 * Len(l)) |->
              (l[Len(l) - ((i - 1) \div 4)] \div (10 ^ (3 - ((i - 1) % 4)))) % 10])

\* l * m + a on limbs, for m and a up to 2^16.
RECURSIVE MulAddLE(_, _, _)
MulAddLE(l, m, a) ==
    IF l = <<>>
    THEN IF a = 0 THEN <<>> ELSE <<a % 10000>> \o MulAddLE(<<>>, m, a \div 10000)
    ELSE <<(Head(l) * m + a) % 10000>>
             \o MulAddLE(Tail(l), m, (Head(l) * m + a) \div 10000)

\* mag * m + a, for m and a up to 2^16.
MulAdd(mag, m, a) == FromLimbs(MulAddLE(Limbs(mag), m, a))

\* The decimal digits of a natural number.
RECURSIVE Dec(_)
Dec(n) == IF n < 10 THEN <<n>> ELSE Append(Dec(n \div 10), n % 10)

\* mag \div 2, on big-endian decimal digits: digit i of the quotient is
\* (10 * (d[i-1] % 2) + d[i]) \div 2.
Halve(mag) ==
    Canon([i \in 1..Len(mag) |->
              ((IF i > 1 /\ mag[i - 1] % 2 = 1 THEN 10 ELSE 0) + mag[i]) \div 2])
IsOdd(mag) == mag[Len(mag)] % 2 = 1

\* a < b, on magnitudes.
Less(a, b) ==
    \/ Len(a) < Len(b)
    \/ /\ Len(a) = Len(b)
       /\ \E i \in 1..Len(a) : a[i] < b[i] /\ \A j \in 1..(i - 1) : a[j] = b[j]

\* 2^53: a double holds every integer below it exactly.
TWO_53 == <<9,0,0,7,1,9,9,2,5,4,7,4,0,9,9,2>>

\* mag * 2^n
RECURSIVE ShiftLeft(_, _)
ShiftLeft(mag, n) ==
    IF n <= 16 THEN MulAdd(mag, 2 ^ n, 0)
    ELSE ShiftLeft(MulAdd(mag, 2 ^ 16, 0), n - 16)

\* The rounding of m * 2^n + (the bits shifted out so far) to 53 significant
\* bits, ties to even: half is the last bit shifted out and sticky tells
\* whether any bit before it was set.
RECURSIVE RoundTo53(_, _, _, _)
RoundTo53(m, n, half, sticky) ==
    IF Less(m, TWO_53)
    THEN ShiftLeft(IF half /\ (sticky \/ IsOdd(m)) THEN MulAdd(m, 1, 1) ELSE m, n)
    ELSE RoundTo53(Halve(m), n + 1, IsOdd(m), sticky \/ half)

\* The integer of type Number nearest to mag: integers of more than 53
\* significant bits are rounded.
ToDouble(mag) == RoundTo53(mag, 0, FALSE, FALSE)

HEX_ORDER == <<"0","1","2","3","4","5","6","7","8","9","a","b","c","d","e","f">>
HEX_UPPER == <<"0","1","2","3","4","5","6","7","8","9","A","B","C","D","E","F">>

\* The value of a digit character (of any radix up to 16).
DigitValue(c) ==
    (CHOOSE i \in 1..16 : HEX_ORDER[i] = c \/ HEX_UPPER[i] = c) - 1

\* The digits of radix r.
RadixDigits(r) ==
    {c \in HEX_DIGITS : DigitValue(c) < r}

\* The value of digit i of the digit characters s in radix r, 0 when s has
\* no such digit, and the value of s when it has at most four digits.
PlaceValue(s, i, r) ==
    IF i <= Len(s) THEN DigitValue(s[i]) * (r ^ (Len(s) - i)) ELSE 0

ShortValue(s, r) ==
    PlaceValue(s, 1, r) + PlaceValue(s, 2, r) + PlaceValue(s, 3, r) + PlaceValue(s, 4, r)

\* The magnitude that the digit characters s denote in radix r, behind the
\* digits that gave acc: four digits are taken at a time.
RECURSIVE FromRadix(_, _, _)
FromRadix(s, r, acc) ==
    IF s = <<>> THEN acc
    ELSE With(MulAdd(acc, r ^ Min2(4, Len(s)),
                     ShortValue(SubSeq(s, 1, Min2(4, Len(s))), r)),
              LAMBDA a :
                  IF a = <<>> THEN a
                  ELSE FromRadix(SubSeq(s, Min2(4, Len(s)) + 1, Len(s)), r, a))

Zeros(n) == [i \in 1..n |-> 0]

\* Number values.  -0 is not told apart from 0.
NumInt(neg, mag) ==
    [k |-> "number", c |-> "int", neg |-> neg /\ mag # <<0>>, mag |-> mag, scale |-> 0]
NumReal(neg, mag, scale) ==
    [k |-> "number", c |-> "real", neg |-> neg, mag |-> mag, scale |-> scale]
NumInf(neg) ==
    [k |-> "number", c |-> "inf", neg |-> neg, mag |-> <<0>>, scale |-> 0]
NaN == [k |-> "number", c |-> "nan", neg |-> FALSE, mag |-> <<0>>, scale |-> 0]

\* BigInt values.
BigIntV(neg, mag) == [k |-> "bigint", neg |-> neg /\ mag # <<0>>, mag |-> mag]

\* The values of String, Uint8Array and Boolean type, and undefined.
StringV(codes) == [k |-> "string", s |-> codes]
BytesV(octets) == [k |-> "bytes", s |-> octets]
BoolV(b) == [k |-> "boolean", b |-> b]
Undefined == [k |-> "undefined"]

isNaN(v) == v.k = "number" /\ v.c = "nan"

\* The number d * 10^sc, of digits d without leading zeros, in canonical
\* form.  A literal beyond 10^309 is an infinity (the largest double is
\* below 1.8 * 10^308).  Fractions are kept exact.
Canonical(neg, d, sc) ==
    IF d = <<0>> THEN NumInt(neg, <<0>>)
    ELSE IF sc >= 0
         THEN IF Len(d) + sc > 309 THEN NumInf(neg)
              ELSE NumInt(neg, ToDouble(d \o Zeros(sc)))
    ELSE NumReal(neg, d, sc)

\* The number digits * 10^scale: the k trailing zeros behind the point are
\* dropped, so that it is an integer exactly when the scale reaches 0.
Scaled(neg, digits, scale) ==
    With(IF scale < 0 THEN Min2(RunLen(Reverse(digits), 1, {0}), -scale) ELSE 0,
         LAMBDA k : Canonical(neg, Canon(SubSeq(digits, 1, Len(digits) - k)), scale + k))

DigitSeq(s) == [i \in 1..Len(s) |-> DigitValue(s[i])]

\* The value of the digit characters e of an exponent, capped at 1000.
ExponentValue(e) ==
    With(Canon(DigitSeq(e)), LAMBDA d :
        IF Len(d) > 3 THEN 1000
        ELSE IF Len(d) = 3 THEN d[1] * 100 + d[2] * 10 + d[3]
        ELSE IF Len(d) = 2 THEN d[1] * 10 + d[2]
        ELSE d[1])

\* The exponent part of s at index q (s[q] is the first character behind
\* the mantissa), as [len, exp]: len is 0 when there is none.
ExponentPart(s, q) ==
    With(IF q + 1 <= Len(s) /\ s[q + 1] \in {"+", "-"} THEN q + 2 ELSE q + 1,
         LAMBDA ePos :
    With(IF q <= Len(s) /\ s[q] \in {"e", "E"} THEN RunLen(s, ePos, DIGITS) ELSE 0,
         LAMBDA nExp :
             IF nExp = 0 THEN [len |-> 0, exp |-> 0]
             ELSE [len |-> ePos + nExp - q,
                   exp |-> IF s[q + 1] = "-"
                           THEN -ExponentValue(SubSeq(s, ePos, ePos + nExp - 1))
                           ELSE ExponentValue(SubSeq(s, ePos, ePos + nExp - 1))]))

\* The mantissa of s at index p, as [nInt, nFrac, len]: the digits before
\* and behind the point, and the length of it all (0 when there is none).
MantissaPart(s, p) ==
    With(RunLen(s, p, DIGITS), LAMBDA nInt :
    With(IF p + nInt <= Len(s) /\ s[p + nInt] = "."
         THEN RunLen(s, p + nInt + 1, DIGITS) ELSE -1, LAMBDA nFrac :
             IF nFrac = -1 THEN [nInt |-> nInt, nFrac |-> 0, len |-> nInt]
             ELSE IF nInt = 0 /\ nFrac = 0 THEN [nInt |-> 0, nFrac |-> 0, len |-> 0]
             ELSE [nInt |-> nInt, nFrac |-> nFrac, len |-> nInt + 1 + nFrac]))

\* The longest prefix of s that is a StrDecimalLiteral (the grammar of
\* Number() and parseFloat()), as [len, val]; len is 0 when there is none.
DecimalLiteralPrefix(s) ==
    With(IF Len(s) >= 1 /\ s[1] \in {"+", "-"} THEN 2 ELSE 1, LAMBDA p :
    With(p = 2 /\ s[1] = "-", LAMBDA neg :
    With(MantissaPart(s, p), LAMBDA m :
    With(ExponentPart(s, p + m.len), LAMBDA e :
        IF StartsWith(SubSeq(s, p, Len(s)), <<"I","n","f","i","n","i","t","y">>)
        THEN [len |-> p + 7, val |-> NumInf(neg)]
        ELSE IF m.len = 0 THEN [len |-> 0, val |-> NaN]
        ELSE [len |-> p + m.len + e.len - 1,
              val |-> Scaled(neg,
                             DigitSeq(SubSeq(s, p, p + m.nInt - 1))
                             \o DigitSeq(SubSeq(s, p + m.nInt + 1, p + m.nInt + m.nFrac)),
                             e.exp - m.nFrac)]))))

\* The literal 0x..., 0o... or 0b... that s is as a whole, as <<radix>>,
\* or <<>> when it is none.
NonDecimalRadix(s) ==
    IF Len(s) >= 2 /\ s[1] = "0" /\ s[2] \in {"x", "X"} THEN <<16>>
    ELSE IF Len(s) >= 2 /\ s[1] = "0" /\ s[2] \in {"o", "O"} THEN <<8>>
    ELSE IF Len(s) >= 2 /\ s[1] = "0" /\ s[2] \in {"b", "B"} THEN <<2>>
    ELSE <<>>

\* The magnitude of the literal s of radix r, behind its prefix of two
\* characters: <<mag>>, or <<>> when the digits are not digits of the radix.
NonDecimalLiteral(s, r) ==
    IF Len(s) >= 3 /\ AllIn(SubSeq(s, 3, Len(s)), RadixDigits(r))
    THEN <<FromRadix(SubSeq(s, 3, Len(s)), r, <<0>>)>>
    ELSE <<>>

\* Number(s) for a string s without leading or trailing white space.
StringToNumber(s) ==
    IF s = <<>> THEN NumInt(FALSE, <<0>>)
    ELSE IF NonDecimalRadix(s) # <<>>
         THEN With(NonDecimalLiteral(s, NonDecimalRadix(s)[1]), LAMBDA m :
                  IF m = <<>> THEN NaN ELSE NumInt(FALSE, ToDouble(m[1])))
    ELSE With(DecimalLiteralPrefix(s), LAMBDA m :
             IF m.len = Len(s) THEN m.val ELSE NaN)

\* BigInt(s) for a string s without leading or trailing white space:
\* <<v>>, or <<>> when it throws a SyntaxError.
StringToBigInt(s) ==
    IF s = <<>> THEN <<BigIntV(FALSE, <<0>>)>>
    ELSE IF NonDecimalRadix(s) # <<>>
         THEN With(NonDecimalLiteral(s, NonDecimalRadix(s)[1]), LAMBDA m :
                  IF m = <<>> THEN <<>> ELSE <<BigIntV(FALSE, m[1])>>)
    ELSE With(IF s[1] \in {"+", "-"} THEN Tail(s) ELSE s, LAMBDA d :
             IF d # <<>> /\ AllIn(d, DIGITS)
             THEN <<BigIntV(s[1] = "-", Canon(DigitSeq(d)))>>
             ELSE <<>>)

\* BigInt(n) for a number n: <<v>>, or <<>> when it throws a RangeError.
NumberToBigInt(n) ==
    IF n.c = "int" THEN <<BigIntV(n.neg, n.mag)>> ELSE <<>>

\* parseInt(s, radix) for a string s without leading white space: p is
\* where the sign ends and q where the prefix 0x (of radix 16) ends.
parseInt(s, radix) ==
    With(IF Len(s) >= 1 /\ s[1] \in {"+", "-"} THEN 2 ELSE 1, LAMBDA p :
    With(IF radix = 16 /\ Len(s) >= p + 1 /\ s[p] = "0" /\ s[p + 1] \in {"x", "X"}
         THEN p + 2 ELSE p, LAMBDA q :
    With(RunLen(s, q, RadixDigits(radix)), LAMBDA n :
        IF n = 0 THEN NaN
        ELSE NumInt(p = 2 /\ s[1] = "-",
                    ToDouble(FromRadix(SubSeq(s, q, q + n - 1), radix, <<0>>))))))

\* The characters of code 32 to 126, in order; the grave accent (code 96) is
\* not part of the alphabet.
PRINTABLE ==
    <<" ","!","\"","#","$","%","&","'","(",")","*","+",",","-",".","/",
      "0","1","2","3","4","5","6","7","8","9",":",";","<","=",">","?",
      "@","A","B","C","D","E","F","G","H","I","J","K","L","M","N","O",
      "P","Q","R","S","T","U","V","W","X","Y","Z","[","\\","]","^","_",
      "","a","b","c","d","e","f","g","h","i","j","k","l","m","n","o",
      "p","q","r","s","t","u","v","w","x","y","z","{","|","}","~">>

\* c.charCodeAt(0)
CharCode(c) ==
    IF c = "\t" THEN 9
    ELSE IF c = "\n" THEN 10
    ELSE IF c = "\f" THEN 12
    ELSE IF c = "\r" THEN 13
    ELSE 31 + (CHOOSE i \in 1..Len(PRINTABLE) : PRINTABLE[i] = c)

\* The UTF-16 code units of a text.
Codes(s) == [i \in 1..Len(s) |-> CharCode(s[i])]

\* c.toLowerCase() and c.toUpperCase()
LowerChar(c) == IF c \in UPPER THEN PRINTABLE[CharCode(c) - 31 + 32] ELSE c
UpperChar(c) == IF c \in LOWER THEN PRINTABLE[CharCode(c) - 31 - 32] ELSE c
toLowerCase(s) == [i \in 1..Len(s) |-> LowerChar(s[i])]

\* String(undefined)
UNDEFINED_TEXT == <<"u","n","d","e","f","i","n","e","d">>

\* A small magnitude as an integer.
RECURSIVE ToInt(_)
ToInt(mag) ==
    IF Len(mag) = 1 THEN mag[1]
    ELSE 10 * ToInt(SubSeq(mag, 1, Len(mag) - 1)) + mag[Len(mag)]

\* String.fromCharCode(v): ToUint16 of v, NaN giving 0.
fromCharCode(v) ==
    IF v.c # "int" THEN <<0>>
    ELSE IF v.neg THEN <<(65536 - (ToInt(v.mag) % 65536)) % 65536>>
    ELSE <<ToInt(v.mag) % 65536>>

\* 0x10FFFF, the largest code point.
MAX_CODE_POINT == <<1,1,1,4,1,1,1>>

\* The UTF-16 code units of the code point cp.
CodeUnits(cp) ==
    IF cp < 65536 THEN <<cp>>
    ELSE <<55296 + ((cp - 65536) \div 1024), 56320 + ((cp - 65536) % 1024)>>

\* String.fromCodePoint(v): <<>> when it throws a RangeError, else <<units>>.
fromCodePoint(v) ==
    IF v.c # "int" \/ v.neg \/ Less(MAX_CODE_POINT, v.mag) THEN <<>>
    ELSE <<CodeUnits(ToInt(v.mag))>>

\* The escapes of one character that stand for one character.
SIMPLE_ESCAPES ==
    [c \in {"a","b","f","n","r","t","v","?","\\","'","\""} |->
        IF c = "a" THEN 7 ELSE IF c = "b" THEN 8 ELSE IF c = "f" THEN 12
        ELSE IF c = "n" THEN 10 ELSE IF c = "r" THEN 13 ELSE IF c = "t" THEN 9
        ELSE IF c = "v" THEN 11 ELSE CharCode(c)]

\* source[i] as the text that  result += source[i]  appends (i is 1-based):
\* "undefined" beyond the end.
CharOrUndefined(source, i) ==
    IF i <= Len(source) THEN <<source[i]>> ELSE UNDEFINED_TEXT

\* A switch whose numeric escapes take one digit and no more.
EscapeOneDigit(source, j) ==
    IF j > Len(source) THEN [next |-> j, units |-> <<Codes(UNDEFINED_TEXT)>>]
    ELSE IF source[j] = "x"
    THEN [next |-> j + 2,
          units |-> <<fromCharCode(parseInt(SubSeq(source, j + 1, j + 1), 16))>>]
    ELSE [next |-> j + 1,
          units |-> <<fromCharCode(parseInt(SubSeq(source, j, j), 8))>>]

\* The switch of cUnescape on source[j], the character behind a backslash:
\* [next, units], where next is the index the loop goes on at and units is
\* <<the code units appended>>, or <<>> when String.fromCodePoint throws an
\* Error, whose message is in message.
Escape(source, j) ==
    IF j <= Len(source) /\ source[j] \in DOMAIN SIMPLE_ESCAPES
    THEN [next |-> j + 1, units |-> << <<SIMPLE_ESCAPES[source[j]]>> >>]
    ELSE IF j <= Len(source) /\ source[j] \in OCT_DIGITS
    THEN With(Min2(3, RunLen(source, j, OCT_DIGITS)), LAMBDA k :
             [next |-> j + k,
              units |-> <<fromCharCode(parseInt(SubSeq(source, j, j + k - 1), 8))>>])
    ELSE IF j <= Len(source) /\ source[j] = "x"
    THEN With(Min2(2, RunLen(source, j + 1, HEX_DIGITS)), LAMBDA k :
             [next |-> j + 1 + k,
              units |-> <<fromCharCode(parseInt(SubSeq(source, j + 1, j + k), 16))>>])
    ELSE IF j <= Len(source) /\ source[j] = "u"
    THEN [next |-> j + 5,
          units |-> <<fromCharCode(parseInt(CharOrUndefined(source, j + 1)
                                            \o CharOrUndefined(source, j + 2)
                                            \o CharOrUndefined(source, j + 3)
                                            \o CharOrUndefined(source, j + 4), 16))>>]
    ELSE IF j <= Len(source) /\ source[j] = "U"
    THEN With(Min2(8, Len(source) - j), LAMBDA k :
         With(parseInt(SubSeq(source, j + 1, j + k), 16), LAMBDA v :
             [next |-> j + 1 + k, units |-> fromCodePoint(v),
              message |-> Msg("Invalid code point %s", v)]))
    ELSE [next |-> j, units |-> <<Codes(CharOrUndefined(source, j))>>]

\* The loop of cUnescape, at index i (1-based) with result built so far.
RECURSIVE Unescape(_, _, _)
Unescape(source, i, result) ==
    IF i > Len(source) THEN [ok |-> TRUE, s |-> result]
    ELSE IF source[i] # "\\"
    THEN Unescape(source, i + 1, Append(result, CharCode(source[i])))
    ELSE With(Escape(source, i + 1), LAMBDA e :
             IF e.units = <<>> THEN [ok |-> FALSE, message |-> e.message]
             ELSE Unescape(source, e.next, result \o e.units[1]))

\* cUnescape(source): [ok |-> TRUE, s |-> code units] or, when an Error is
\* thrown, [ok |-> FALSE, message |-> its message].
cUnescape(source) == Unescape(source, 1, <<>>)

_consumeByteString(tk) ==
    IF Len(tk.token) < 1 \/ tk.token[1] \notin _QUOTES
    THEN Raise(tk, parseError(tk, Msg("Expected string but found: %s", tk.token)))
    ELSE IF Len(tk.token) < 2 \/ tk.token[Len(tk.token)] # tk.token[1]
    THEN Raise(tk, parseError(tk, Msg("String missing ending quote: %s", tk.token)))
    ELSE With(cUnescape(SubSeq(tk.token, 2, Len(tk.token) - 1)), LAMBDA r :
             IF r.ok THEN Ret(nextToken(tk), r.s)
             ELSE Raise(tk, parseError(tk, r.message)))

\* One literal is consumed, whatever follows it.
ConsumeOneLiteral(tk, result) ==
    With(_consumeByteString(tk), LAMBDA r :
        IF Threw(r) THEN r ELSE Ret(r.tk, result \o r.val))

\* The loop shared by consumeString and consumeByteString: a literal is
\* consumed and added to result, as long as a quote follows.
RECURSIVE ConsumeLiterals(_, _)
ConsumeLiterals(tk, result) ==
    With(_consumeByteString(tk), LAMBDA r :
        IF Threw(r) THEN r
        ELSE IF r.tk.token # <<>> /\ r.tk.token[1] \in _QUOTES
        THEN ConsumeLiterals(r.tk, result \o r.val)
        ELSE Ret(r.tk, result \o r.val))

consumeString(tk) ==
    With(ConsumeLiterals(tk, <<>>), LAMBDA r :
        IF Threw(r) THEN r ELSE Ret(r.tk, StringV(r.val)))

consumeByteString(tk) ==
    With(ConsumeLiterals(tk, <<>>), LAMBDA r :
        IF Threw(r) THEN r
        ELSE Ret(r.tk, BytesV([i \in 1..Len(r.val) |-> r.val[i] % 256])))

\* The argument of a constructor that is a string.
TextArg(s) == [k |-> "text", s |-> s]

\* constructor(arg) for the constructor Number or BigInt and an argument that
\* is a string or a number: <<v>>, or <<>> when it throws.
Construct(constructor, arg) ==
    IF constructor = "Number"
    THEN IF arg.k = "text" THEN <<StringToNumber(arg.s)>> ELSE <<arg>>
    ELSE IF arg.k = "text" THEN StringToBigInt(arg.s) ELSE NumberToBigInt(arg)

\* /^-?0[0-7]+$/.test(s)
IsOctalLiteral(s) ==
    \E p \in {IF Len(s) >= 1 /\ s[1] = "-" THEN 2 ELSE 1} :
        /\ Len(s) >= p + 1
        /\ s[p] = "0"
        /\ \A i \in (p + 1)..Len(s) : s[i] \in OCT_DIGITS

\* Tokenizer.parseInteger(text, constructor): <<v>>, or <<>> when it throws
\* its Error.
parseInteger(text_, constructor) ==
    With(Construct(constructor,
             IF StartsWith(text_, <<"0", "x">>) \/ StartsWith(text_, <<"0", "X">>)
             THEN TextArg(text_)
             ELSE IF StartsWith(text_, <<"-", "0", "x">>) \/ StartsWith(text_, <<"-", "0", "X">>)
             THEN parseInt(text_, 16)
             ELSE IF IsOctalLiteral(text_)
             THEN parseInt(text_, 8)
             ELSE TextArg(text_)),
         LAMBDA result :
             IF result = <<>> THEN <<>>
             ELSE IF isNaN(result[1]) THEN <<>>
             ELSE result)

\* The body shared by the four integer consumers, which differ by the
\* constructor only: the token is consumed, then parsed.
ConsumeInteger(tk, constructor) ==
    With(nextToken(tk), LAMBDA t :
    With(parseInteger(tk.token, constructor), LAMBDA value :
        IF value = <<>>
        THEN Raise(t, parseErrorPreviousToken(t, Msg("Couldn't parse integer: %s", tk.token)))
        ELSE Ret(t, value[1])))

consumeInt32(tk) == ConsumeInteger(tk, "Number")
consumeUint32(tk) == ConsumeInteger(tk, "Number")
consumeInt64(tk) == ConsumeInteger(tk, "BigInt")
consumeUint64(tk) == ConsumeInteger(tk, "BigInt")

\* parseFloat(s) for a string s without leading white space.
parseFloat(s) == DecimalLiteralPrefix(s).val

consumeFloat(tk) ==
    With(toLowerCase(tk.token), LAMBDA lowerToken :
        Ret(nextToken(tk),
            IF lowerToken \in {<<"i","n","f">>, <<"i","n","f","i","n","i","t","y">>}
            THEN NumInf(FALSE)
            ELSE IF lowerToken \in {<<"-","i","n","f">>, <<"-","i","n","f","i","n","i","t","y">>}
            THEN NumInf(TRUE)
            ELSE IF lowerToken = <<"n","a","n">> THEN NaN
            ELSE IF tk.token # <<>> /\ tk.token[Len(tk.token)] = "f"
            THEN parseFloat(SubSeq(tk.token, 1, Len(tk.token) - 1))
            ELSE parseFloat(tk.token)))

\* A consumer of booleans that knows the lower-case spellings only.
LowerCaseBool(tk) ==
    With(nextToken(tk), LAMBDA t :
        IF tk.token \in {<<"t","r","u","e">>, <<"t">>, <<"1">>}
        THEN Ret(t, BoolV(TRUE))
        ELSE IF tk.token \in {<<"f","a","l","s","e">>, <<"f">>, <<"0">>}
        THEN Ret(t, BoolV(FALSE))
        ELSE Raise(t, parseErrorPreviousToken(t, Msg("Expected \"true\", \"True\", \"t\", 1, or \"false\", \"False\", \"f\", 0; found \"%s\"", tk.token))))

consumeBool(tk) ==
    With(nextToken(tk), LAMBDA t :
        IF tk.token \in {<<"t","r","u","e">>, <<"T","r","u","e">>, <<"t">>, <<"1">>}
        THEN Ret(t, BoolV(TRUE))
        ELSE IF tk.token \in {<<"f","a","l","s","e">>, <<"F","a","l","s","e">>, <<"f">>, <<"0">>}
        THEN Ret(t, BoolV(FALSE))
        ELSE Raise(t, parseErrorPreviousToken(t, Msg("Expected \"true\", \"True\", \"t\", 1, or \"false\", \"False\", \"f\", 0; found \"%s\"", tk.token))))

\* /^[a-zA-Z_][0-9a-zA-Z_+-]*$/.test(s)
IsIdentifierToken(s) ==
    Len(s) >= 1 /\ s[1] \in IDENT_START /\ \A i \in 2..Len(s) : s[i] \in IDENT_REST

\* /^([0-9+-]|(\.[0-9]))[0-9a-zA-Z_.+-]*$/.test(s)
IsNumberToken(s) ==
    \/ Len(s) >= 1 /\ s[1] \in NUM_START /\ \A i \in 2..Len(s) : s[i] \in NUM_REST
    \/ Len(s) >= 2 /\ s[1] = "." /\ s[2] \in DIGITS /\ \A i \in 3..Len(s) : s[i] \in NUM_REST

\* The ParseError of consumeString is caught here and false is returned; the
\* tokens that consumeString consumed before it threw stay consumed.
tryConsumeAnyScalar(tk) ==
    IF atEnd(tk) THEN Ret(tk, FALSE)
    ELSE IF Len(tk.token) > 0 /\ tk.token[1] \in _QUOTES
    THEN With(consumeString(tk), LAMBDA r : Ret(r.tk, ~Threw(r)))
    ELSE IF IsIdentifierToken(tk.token) \/ IsNumberToken(tk.token)
    THEN Ret(nextToken(tk), TRUE)
    ELSE Ret(tk, FALSE)

(* The schema: the reflection objects the parser reads through message.$type *)
(* and options.descriptorPool.  It is the schema of the test-suite: a       *)
(* message with a field of every kind, a nested message and an enum.        *)

\* The text of a string constant.
Chars(str) == [i \in 1..Len(str) |-> SubSeq(str, i, i)]

\* A reflection object is a record; one that is a Field has hasId (the
\* property id is in it).  resolvedType is <<>> or <<full name of the type>>.
Field(parent, name, id, type, repeated, resolvedType) ==
    [hasId |-> TRUE, parent |-> parent, name |-> name, id |-> id, type |-> type,
     repeated |-> repeated, map |-> FALSE, keyType |-> "",
     resolvedType |-> resolvedType]

MapField(parent, name, id, keyType, type, resolvedType) ==
    [hasId |-> TRUE, parent |-> parent, name |-> name, id |-> id, type |-> type,
     repeated |-> FALSE, map |-> TRUE, keyType |-> keyType,
     resolvedType |-> resolvedType]

TEST_MESSAGE == "test.TestMessage"
NESTED_MESSAGE == "test.NestedMessage"
OPTIONAL_GROUP == "test.OptionalGroup"
TEST_ENUM == "test.TestEnum"

\* The scalar fields of TestMessage, by tag: field <type>Field has the type.
SCALAR_TYPES ==
    <<"string", "int32", "int64", "uint32", "uint64", "sint32", "sint64",
      "fixed32", "fixed64", "sfixed32", "sfixed64", "float", "double",
      "bool", "bytes">>

TestMessageFields ==
    LET P == TEST_MESSAGE
    IN [i \in 1..Len(SCALAR_TYPES) |->
           Field(P, SCALAR_TYPES[i] \o "Field", i, SCALAR_TYPES[i], FALSE, <<>>)]
       \o
       <<Field(P, "enumField", 16, "TestEnum", FALSE, <<TEST_ENUM>>),
         Field(P, "nestedMessage", 17, "NestedMessage", FALSE, <<NESTED_MESSAGE>>),
         Field(P, "repeatedInt32", 18, "int32", TRUE, <<>>),
         Field(P, "repeatedString", 19, "string", TRUE, <<>>),
         Field(P, "repeatedNested", 20, "NestedMessage", TRUE, <<NESTED_MESSAGE>>),
         Field(P, "repeatedEnum", 21, "TestEnum", TRUE, <<TEST_ENUM>>),
         MapField(P, "stringIntMap", 22, "string", "int32", <<>>),
         MapField(P, "intMessageMap", 23, "int32", "NestedMessage", <<NESTED_MESSAGE>>),
         Field(P, "optionalgroup", 24, "OptionalGroup", FALSE, <<OPTIONAL_GROUP>>)>>

NestedMessageFields ==
    <<Field(NESTED_MESSAGE, "value", 1, "string", FALSE, <<>>),
      Field(NESTED_MESSAGE, "number", 2, "int32", FALSE, <<>>)>>

OptionalGroupFields ==
    <<Field(OPTIONAL_GROUP, "a", 1, "int32", FALSE, <<>>)>>

\* The Type and Enum objects, by full name.  A Type has no property id, map,
\* repeated, resolvedType or type: read through a Field-typed variable they
\* are undefined.
Type(fullName, name, fields) ==
    [hasId |-> FALSE, kind |-> "message", fullName |-> fullName, name |-> name,
     fieldsArray |-> fields, parent |-> "test", type |-> "undefined",
     repeated |-> FALSE, map |-> FALSE, keyType |-> "", resolvedType |-> <<>>]

Enum(fullName, name, values) ==
    [hasId |-> FALSE, kind |-> "enum", fullName |-> fullName, name |-> name,
     values |-> values, parent |-> "test", type |-> "undefined",
     repeated |-> FALSE, map |-> FALSE, keyType |-> "", resolvedType |-> <<>>]

TYPES ==
    (TEST_MESSAGE :> Type(TEST_MESSAGE, "TestMessage", TestMessageFields))
    @@ (NESTED_MESSAGE :> Type(NESTED_MESSAGE, "NestedMessage", NestedMessageFields))
    @@ (OPTIONAL_GROUP :> Type(OPTIONAL_GROUP, "OptionalGroup", OptionalGroupFields))
    @@ (TEST_ENUM :> Enum(TEST_ENUM, "TestEnum",
            ("ENUM_VALUE_ZERO" :> NumInt(FALSE, <<0>>))
            @@ ("ENUM_VALUE_ONE" :> NumInt(FALSE, <<1>>))
            @@ ("ENUM_VALUE_TWO" :> NumInt(FALSE, <<2>>))
            @@ ("NEGATIVE_VALUE" :> NumInt(TRUE, <<1>>))))

\* An optional value: <<>> for null or undefined.
Some(S) == IF S = {} THEN <<>> ELSE <<CHOOSE x \in S : TRUE>>

\* type.fields[name] for a name given as text
FieldsLookup(type, name) ==
    Some({f \in {type.fieldsArray[i] : i \in 1..Len(type.fieldsArray)} :
              Chars(f.name) = name})

\* type.fieldsById[number]: the property key of a number is its decimal form.
FieldsByIdLookup(type, number) ==
    IF number.c # "int" \/ number.neg THEN <<>>
    ELSE Some({f \in {type.fieldsArray[i] : i \in 1..Len(type.fieldsArray)} :
                   Dec(f.id) = number.mag})

\* enumType.values[name] for a name given as text
ValuesLookup(enumType, name) ==
    Some({enumType.values[n] : n \in {m \in DOMAIN enumType.values : Chars(m) = name}})

\* descriptorPool.lookup(name): the default pool is an empty Root, where
\* nothing is found; in the Root of the schema a path names a type or, behind
\* the path of a type, one of its fields.
PoolLookup(pool, name) ==
    IF pool = "default" THEN <<>>
    ELSE LET types == {TYPES[n] : n \in DOMAIN TYPES}
             fieldsOf(t) == IF t.kind = "message"
                            THEN {<<t, t.fieldsArray[i]>> : i \in 1..Len(t.fieldsArray)}
                            ELSE {}
         IN Some({t \in types : Chars(t.fullName) = name}
                 \cup {p[2] : p \in {q \in UNION {fieldsOf(t) : t \in types} :
                                       Chars(q[1].fullName) \o <<".">> \o Chars(q[2].name) = name}})

\* root.lookupType(name): <<type>>, or <<>> when it throws (no such type).
LookupType(name) ==
    Some({TYPES[n] : n \in {m \in DOMAIN TYPES :
                               TYPES[m].kind = "message" /\ TYPES[m].name = name}})

-----------------------------------------------------------------------------
(* Messages                                                                *)

\* A message is its identity, its type and its own properties; a property
\* that is not in the domain of f is undefined.  The identity tells the
\* objects the caller made from those the parser creates.
MessageV(id, type, f) == [k |-> "message", id |-> id, type |-> type, f |-> f]
ArrayV(items) == [k |-> "array", items |-> items]
ObjectV(entries) == [k |-> "object", e |-> entries]

\* The function with an empty domain.
Empty == [x \in {} |-> x]

\* type.create()
create(type) == MessageV("created", type.fullName, Empty)

\* message[name]
Get(m, name) == IF name \in DOMAIN m.f THEN m.f[name] ELSE Undefined

\* message[name] = v
Set(m, name, v) == [m EXCEPT !.f = (name :> v) @@ @]

\* Array.isArray(v)
isArray(v) == v.k = "array"

\* ToBoolean(v)
Truthy(v) ==
    IF v.k = "undefined" THEN FALSE
    ELSE IF v.k = "boolean" THEN v.b
    ELSE IF v.k = "string" THEN v.s # <<>>
    ELSE IF v.k = "number" THEN v.c # "nan" /\ ~(v.c \in {"int", "real"} /\ v.mag = <<0>>)
    ELSE IF v.k = "bigint" THEN v.mag # <<0>>
    ELSE TRUE

DIGIT_CHARS == <<"0","1","2","3","4","5","6","7","8","9">>

\* The decimal text of a magnitude.
MagText(mag) == [i \in 1..Len(mag) |-> DIGIT_CHARS[mag[i] + 1]]

\* String(v), the property key that v is used as, in code units.  Numbers
\* are written without an exponent.
ToPropertyKey(v) ==
    LET sign == IF v.neg THEN <<"-">> ELSE <<>>
    IN IF v.k = "string" THEN v.s
       ELSE IF v.k = "undefined" THEN Codes(UNDEFINED_TEXT)
       ELSE IF v.k = "boolean" THEN Codes(Chars(IF v.b THEN "true" ELSE "false"))
       ELSE IF v.k = "bigint" THEN Codes(sign \o MagText(v.mag))
       ELSE IF v.c = "int" THEN Codes(sign \o MagText(v.mag))
       ELSE IF v.c = "inf" THEN Codes(sign \o Chars("Infinity"))
       ELSE IF v.c = "nan" THEN Codes(Chars("NaN"))
       ELSE LET n == Len(v.mag)
                d == MagText(v.mag)
            IN IF -v.scale < n
               THEN Codes(sign \o SubSeq(d, 1, n + v.scale) \o <<".">>
                          \o SubSeq(d, n + v.scale + 1, n))
               ELSE Codes(sign \o <<"0", ".">> \o MagText(Zeros(-v.scale - n)) \o d)


(* Parser                                                                  *)

\* new Parser(options): options is a function from the option names that are
\* given to their values.
Parser(opts) ==
    LET Opt(name, default) == IF name \in DOMAIN opts THEN opts[name] ELSE default
    IN [allowUnknownExtension |-> Opt("allowUnknownExtension", FALSE),
        allowFieldNumber |-> Opt("allowFieldNumber", FALSE),
        descriptorPool |-> Opt("descriptorPool", "default"),
        allowUnknownField |-> Opt("allowUnknownField", FALSE)]

\* The result of a method of the Parser that writes to a message: the
\* tokenizer and the message after the call, and the exception.  A message
\* is mutated in place, so what was written before a throw stays written.
PRet(tk, m) == [tk |-> tk, msg |-> m, err |-> NoErr]
PThrow(tk, m, e) == [tk |-> tk, msg |-> m, err |-> <<e>>]
PRaise(tk, m, e) == PThrow(Raise(tk, e).tk, m, e)

\* /_([a-z])/ matches at index i of s (1-based).  Matches do not overlap:
\* the letter of one is not the underscore of another.
IsCamelMatch(s, i) == i >= 1 /\ i < Len(s) /\ s[i] = "_" /\ s[i + 1] \in LOWER

\* str.replace(/_([a-z])/g, (g) => g[1].toUpperCase())
toCamelCase(str) ==
    SelectSeq([i \in 1..Len(str) |->
                  IF IsCamelMatch(str, i) THEN ""
                  ELSE IF IsCamelMatch(str, i - 1) THEN UpperChar(str[i])
                  ELSE str[i]],
              LAMBDA c : c # "")

\* A statement that may throw, followed by the rest of the block: when r is
\* the result of a throw it is the result of the block, else Rest(r) is.
Then(r, Rest(_)) == IF Threw(r) THEN r ELSE Rest(r)

\* The same, in a method that writes to a message: when the tokenizer's
\* method threw, the message is as it was written so far.
Try(r, msg, Rest(_)) == IF Threw(r) THEN PThrow(r.tk, msg, r.err[1]) ELSE Rest(r)

\* tokenizer.tryConsume('<') ? '>' : (tokenizer.consume('{'), '}')
\* A body that only a brace opens.
BraceOnly(tk) ==
    Then(consume(tk, <<"{">>), LAMBDA c : Ret(c.tk, <<"}">>))

EndToken(tk) ==
    With(tryConsume(tk, <<"<">>), LAMBDA a :
        IF a.val THEN Ret(a.tk, <<">">>)
        ELSE Then(consume(a.tk, <<"{">>), LAMBDA c : Ret(c.tk, <<"}">>)))

\* while (tokenizer.tryConsume('.')) name += '.' + tokenizer.consumeIdentifier()
\* where r is the result of the consumeIdentifier before.
RECURSIVE ExtensionRest(_)
ExtensionRest(r) ==
    Then(r, LAMBDA first :
    With(tryConsume(first.tk, <<".">>), LAMBDA d :
        IF ~d.val THEN first
        ELSE ExtensionRest(Then(consumeIdentifier(d.tk), LAMBDA n :
                 Ret(n.tk, first.val \o <<".">> \o n.val)))))

\* The name of an extension, behind its "[": an identifier and the
\* identifiers that follow it behind a "." each, then the "]".
ExtensionName(tk) ==
    Then(ExtensionRest(consumeIdentifier(tk)), LAMBDA nm :
    Then(consume(nm.tk, <<"]">>), LAMBDA c : Ret(c.tk, nm.val)))

\* A skipFieldValue that consumes nothing.
SkipNoValue(tk) == Ret(tk, TRUE)

skipFieldValue(tk) ==
    With(tryConsumeAnyScalar(tk), LAMBDA r :
        IF ~r.val
        THEN Raise(r.tk, parseError(r.tk, Msg("Invalid field value: %s", r.tk.token)))
        ELSE Ret(r.tk, TRUE))

RECURSIVE skipField(_)
RECURSIVE skipFieldContents(_)
RECURSIVE skipFieldMessage(_)
RECURSIVE skipRepeatedFieldValue(_)
RECURSIVE SkipFields(_, _)
RECURSIVE SkipItems(_)

skipField(tk) ==
    With(tryConsume(tk, <<"[">>), LAMBDA b :
    Then(IF b.val THEN ExtensionName(b.tk) ELSE consumeIdentifierOrNumber(b.tk), LAMBDA nm :
    Then(skipFieldContents(nm.tk), LAMBDA c :
    With(tryConsume(c.tk, <<",">>), LAMBDA comma :
        IF ~comma.val THEN Ret(tryConsume(comma.tk, <<";">>).tk, TRUE)
        ELSE Ret(comma.tk, TRUE)))))

skipFieldContents(tk) ==
    With(tryConsume(tk, <<":">>), LAMBDA c :
        IF c.val /\ ~lookingAt(c.tk, <<"{">>) /\ ~lookingAt(c.tk, <<"<">>)
        THEN IF lookingAt(c.tk, <<"[">>) THEN skipRepeatedFieldValue(c.tk)
             ELSE skipFieldValue(c.tk)
        ELSE skipFieldMessage(c.tk))

\* The loop of skipFieldMessage and the consume(delimiter) behind it.
SkipFields(tk, delimiter) ==
    IF ~lookingAt(tk, <<">">>) /\ ~lookingAt(tk, <<"}">>)
    THEN Then(skipField(tk), LAMBDA r : SkipFields(r.tk, delimiter))
    ELSE consume(tk, delimiter)

skipFieldMessage(tk) ==
    Then(EndToken(tk), LAMBDA open : SkipFields(open.tk, open.val))

\* The loop of skipRepeatedFieldValue.
SkipItems(tk) ==
    Then(IF lookingAt(tk, <<"<">>) \/ lookingAt(tk, <<"{">>)
         THEN skipFieldMessage(tk)
         ELSE skipFieldValue(tk), LAMBDA v :
    With(tryConsume(v.tk, <<"]">>), LAMBDA e :
        IF e.val THEN e
        ELSE Then(consume(e.tk, <<",">>), LAMBDA c : SkipItems(c.tk))))

skipRepeatedFieldValue(tk) ==
    Then(consume(tk, <<"[">>), LAMBDA open :
    With(tryConsume(open.tk, <<"]">>), LAMBDA e :
        IF e.val THEN e ELSE SkipItems(e.tk)))

parseScalar(tk, type) ==
    IF type \in {"double", "float"} THEN consumeFloat(tk)
    ELSE IF type \in {"int32", "sint32", "sfixed32"} THEN consumeInt32(tk)
    ELSE IF type \in {"uint32", "fixed32"} THEN consumeUint32(tk)
    ELSE IF type \in {"int64", "sint64", "sfixed64"} THEN consumeInt64(tk)
    ELSE IF type \in {"uint64", "fixed64"} THEN consumeUint64(tk)
    ELSE IF type = "bool" THEN consumeBool(tk)
    ELSE IF type = "string" THEN consumeString(tk)
    ELSE IF type = "bytes" THEN consumeByteString(tk)
    ELSE Raise(tk, parseError(tk, Msg("Unknown scalar type: %s", Chars(type))))

\* A number is digits and nothing else.
IsPlainNumber(s) == Len(s) >= 1 /\ AllIn(s, DIGITS)

\* /^-?(?:0[xX][0-9a-fA-F]+|0[0-7]+|\d+)$/.test(s)
IsEnumNumber(s) ==
    \E p \in {IF Len(s) >= 1 /\ s[1] = "-" THEN 2 ELSE 1} :
        \/ /\ Len(s) >= p + 2
           /\ s[p] = "0" /\ s[p + 1] \in {"x", "X"}
           /\ AllIn(SubSeq(s, p + 2, Len(s)), HEX_DIGITS)
        \/ Len(s) >= p /\ AllIn(SubSeq(s, p, Len(s)), DIGITS)

\* field.resolvedType, of a field that has one
ResolvedType(field) == TYPES[field.resolvedType[1]]

\* parseEnum(field, value): [val, err].  Its ParseError is made without a
\* line and a column.
parseEnum(field, value) ==
    With(IF IsEnumNumber(value) THEN parseInteger(value, "Number") ELSE <<>>, LAMBDA num :
        IF num # <<>> THEN [val |-> num[1], err |-> NoErr]
        ELSE With(ValuesLookup(ResolvedType(field), value), LAMBDA enumValue :
            IF enumValue = <<>>
            THEN [val |-> Undefined,
                  err |-> <<ParseError(Msg("Enum type \"%s\" has no value named %s.",
                                           <<Chars(ResolvedType(field).name), value>>),
                                       <<>>, <<>>)>>]
            ELSE [val |-> enumValue[1], err |-> NoErr]))

\* field.resolvedType && ('valuesById' in field.resolvedType)
IsEnumField(field) ==
    field.resolvedType # <<>> /\ ResolvedType(field).kind = "enum"

\* The value of an enum field: the token is consumed and parseEnum is
\* called on it.
EnumValue(tk, field) ==
    Then(IF IsEnumNumber(tk.token) THEN Ret(nextToken(tk), tk.token)
         ELSE consumeIdentifierOrNumber(tk), LAMBDA str :
    With(parseEnum(field, str.val), LAMBDA en :
        IF en.err # <<>> THEN Raise(str.tk, en.err[1])
        ELSE Ret(str.tk, en.val)))

\* if (!Array.isArray(message[name])) message[name] = [];
\* message[name].push(value)
\* A push that forgets the array: message[name] = [value].
PushAlone(msg, name, value) == Set(msg, name, ArrayV(<<value>>))

Push(msg, name, value) ==
    Set(msg, name,
        ArrayV(Append(IF isArray(Get(msg, name)) THEN Get(msg, name).items ELSE <<>>,
                      value)))

mergeScalarField(tk, msg, field) ==
    Try(IF IsEnumField(field) THEN EnumValue(tk, field)
        ELSE parseScalar(tk, field.type), msg, LAMBDA value :
        PRet(value.tk, IF field.repeated THEN Push(msg, field.name, value.val)
                       ELSE Set(msg, field.name, value.val)))

\* /^\d+$/.test(s)
IsDigits(s) == Len(s) >= 1 /\ AllIn(s, DIGITS)

\* A test for field numbers that does not read the option.
DigitsAreNumbers(this, name) == IsDigits(name)

\* this.allowFieldNumber && /^\d+$/.test(name)
IsFieldNumber(this, name) == this.allowFieldNumber /\ IsDigits(name)

\* fieldByLower && fieldByLower.resolvedType && fieldByLower.resolvedType.name === name
IsGroupName(fieldByLower, name) ==
    /\ fieldByLower # <<>>
    /\ fieldByLower[1].resolvedType # <<>>
    /\ Chars(ResolvedType(fieldByLower[1]).name) = name

\* The field that a name, which is not the name of an extension, is the
\* name of in a message type: <<>> when there is none.
FieldNamed(this, messageDescriptor, name) ==
    IF IsFieldNumber(this, name)
    THEN FieldsByIdLookup(messageDescriptor, parseInt(name, 10))
    ELSE With(FieldsLookup(messageDescriptor, toCamelCase(name)), LAMBDA field :
             IF field # <<>> THEN field
             ELSE With(FieldsLookup(messageDescriptor, toLowerCase(name)),
                       LAMBDA fieldByLower :
                           IF IsGroupName(fieldByLower, name) THEN fieldByLower
                           ELSE <<>>))

\* The extension branch of mergeField, behind the "[": the value is
\* [field, fieldName], where field is <<>> when the pool found nothing.
ResolveExtension(this, tk, msg) ==
    Then(ExtensionName(tk), LAMBDA ext :
    With(PoolLookup(this.descriptorPool, ext.val), LAMBDA found :
        IF found = <<>> \/ ~found[1].hasId
        THEN IF ~this.allowUnknownExtension
             THEN Raise(ext.tk, parseErrorPreviousToken(ext.tk,
                      Msg("Extension \"%s\" not found.", ext.val)))
             ELSE Ret(ext.tk, [field |-> found, fieldName |-> ext.val])
        ELSE IF found[1].parent # msg.type
        THEN Raise(ext.tk, parseErrorPreviousToken(ext.tk,
                 Msg("Extension \"%s\" does not extend message type \"%s\".",
                     <<ext.val, Chars(msg.type)>>)))
        ELSE Ret(ext.tk, [field |-> found, fieldName |-> ext.val])))

\* The first part of mergeField: the name of the field is consumed and the
\* field it names is looked up.  The value is [field, fieldName], where field
\* is <<>> when nothing (or null) was found.
ResolveField(this, tk, msg) ==
    With(tryConsume(tk, <<"[">>), LAMBDA b :
        IF b.val THEN ResolveExtension(this, b.tk, msg)
        ELSE Then(consumeIdentifierOrNumber(b.tk), LAMBDA name :
                 Ret(name.tk, [field |-> FieldNamed(this, TYPES[msg.type], name.val),
                               fieldName |-> name.val])))

\* A sub-message that is created at every occurrence of the field.
FreshSubMessage(msg, field) == create(ResolvedType(field))

\* message[field.name] || field.resolvedType.create()
SubMessage(msg, field) ==
    IF Truthy(Get(msg, field.name)) THEN Get(msg, field.name)
    ELSE create(ResolvedType(field))

\* The message once the sub-message that mergeMessageField parses into is
\* in it: pushed to the array of a repeated field, or the value of a
\* singular one.
WithSubMessage(msg, field) ==
    IF field.repeated THEN Push(msg, field.name, create(ResolvedType(field)))
    ELSE Set(msg, field.name, SubMessage(msg, field))

\* The sub-message that WithSubMessage put in the message.
CurrentSubMessage(msg, field) ==
    IF field.repeated
    THEN Get(msg, field.name).items[Len(Get(msg, field.name).items)]
    ELSE Get(msg, field.name)

\* The message holds the sub-message by reference: what is written to the
\* sub-message is written in the message.
Written(msg, field, subMessage) ==
    IF field.repeated
    THEN Set(msg, field.name,
             ArrayV([Get(msg, field.name).items
                         EXCEPT ![Len(Get(msg, field.name).items)] = subMessage]))
    ELSE Set(msg, field.name, subMessage)

\* if (!message[field.name]) message[field.name] = {};
\* message[field.name][key] = value
\* A store that keeps the value a key has: the first entry of a key wins.
StoreFirstEntry(msg, field, key, value) ==
    Set(msg, field.name,
        ObjectV((IF Truthy(Get(msg, field.name)) THEN Get(msg, field.name).e
                 ELSE Empty)
                @@ (ToPropertyKey(key) :> value)))

StoreMapEntry(msg, field, key, value) ==
    Set(msg, field.name,
        ObjectV((ToPropertyKey(key) :> value)
                @@ (IF Truthy(Get(msg, field.name)) THEN Get(msg, field.name).e
                    ELSE Empty)))

\* tokenizer.consume(':'); return this.parseScalar(tokenizer, type)
ColonScalar(tk, type) ==
    Then(consume(tk, <<":">>), LAMBDA c : parseScalar(c.tk, type))

\* The Error that lookupType throws: it is no ParseError.
NO_SUCH_TYPE == [name |-> "Error", message |-> "no such type"]

RECURSIVE mergeField(_, _, _)
RECURSIVE ParseItems(_, _, _, _)
RECURSIVE MapValueFields(_, _, _, _)
RECURSIVE MapEntryFields(_, _, _, _, _, _)
RECURSIVE MessageFields(_, _, _, _, _)

\* The loop of the try block of mergeMapFieldEntry: the fields of the value
\* are merged into subMessage up to messageEndToken.
MapValueFields(this, tk, subMessage, messageEndToken) ==
    With(tryConsume(tk, messageEndToken), LAMBDA e :
        IF e.val THEN Ret(e.tk, subMessage)
        ELSE With(mergeField(this, e.tk, subMessage), LAMBDA f :
                 IF Threw(f) THEN Throw(f.tk, f.err[1])
                 ELSE MapValueFields(this, f.tk, f.msg, messageEndToken)))

\* The try block of mergeMapFieldEntry: the value as a message.
MapValueMessage(this, tk, valueType) ==
    With(LookupType(valueType), LAMBDA resolvedValueType :
        IF resolvedValueType = <<>> THEN Throw(tk, NO_SUCH_TYPE)
        ELSE Then(EndToken(tryConsume(tk, <<":">>).tk), LAMBDA open :
                 MapValueFields(this, open.tk, create(resolvedValueType[1]), open.val)))

\* The value of a map entry: the try block and the catch block, which takes
\* over, from where the tokenizer stands, whatever was thrown in the try
\* block.
MapValue(this, tk, valueType) ==
    With(MapValueMessage(this, tk, valueType), LAMBDA r :
        IF Threw(r) THEN ColonScalar(r.tk, valueType) ELSE r)

\* The loop of mergeMapFieldEntry and the store behind it; entry holds the
\* variables key and value.
MapEntryFields(this, tk, msg, field, endToken, entry) ==
    Try(consumeIdentifier(tk), msg, LAMBDA name :
        IF name.val \notin {<<"k","e","y">>, <<"v","a","l","u","e">>}
        THEN PRaise(name.tk, msg, parseError(name.tk,
                 Msg("Unexpected field in map entry: %s", name.val)))
        ELSE
    Try(IF name.val = <<"k","e","y">> THEN ColonScalar(name.tk, field.keyType)
        ELSE MapValue(this, name.tk, field.type), msg, LAMBDA v :
    With(IF name.val = <<"k","e","y">> THEN [entry EXCEPT !.key = v.val]
         ELSE [entry EXCEPT !.value = v.val], LAMBDA entry1 :
    With(tryConsume(tryConsume(v.tk, <<",">>).tk, endToken), LAMBDA e :
        IF e.val THEN PRet(e.tk, StoreMapEntry(msg, field, entry1.key, entry1.value))
        ELSE MapEntryFields(this, e.tk, msg, field, endToken, entry1)))))

mergeMapFieldEntry(this, tk, msg, field) ==
    Try(EndToken(tk), msg, LAMBDA open :
    With(tryConsume(open.tk, open.val), LAMBDA empty :
        IF empty.val THEN PRet(empty.tk, msg)
        ELSE MapEntryFields(this, empty.tk, msg, field, open.val,
                            [key |-> Undefined, value |-> Undefined])))

\* The loop of mergeMessageField: the fields are merged into the
\* sub-message of the field, which msg holds.
MessageFields(this, tk, msg, field, endToken) ==
    With(tryConsume(tk, endToken), LAMBDA e :
        IF e.val THEN PRet(e.tk, msg)
        ELSE IF atEnd(e.tk)
        THEN PRaise(e.tk, msg, parseError(e.tk, Msg("Expected \"%s\"", endToken)))
        ELSE With(mergeField(this, e.tk, CurrentSubMessage(msg, field)), LAMBDA f :
                 IF Threw(f) THEN PThrow(f.tk, Written(msg, field, f.msg), f.err[1])
                 ELSE MessageFields(this, f.tk, Written(msg, field, f.msg), field, endToken)))

mergeMessageField(this, tk, msg, field) ==
    Try(EndToken(tk), msg, LAMBDA open :
        MessageFields(this, open.tk, WithSubMessage(msg, field), field, open.val))

\* The callback parseItem that mergeField hands to parseList.
ParseItem(this, tk, msg, field) ==
    IF field.map THEN mergeMapFieldEntry(this, tk, msg, field)
    ELSE IF field.resolvedType # <<>> /\ ~IsEnumField(field)
    THEN mergeMessageField(this, tk, msg, field)
    ELSE mergeScalarField(tk, msg, field)

\* The loop of parseList.
ParseItems(this, tk, msg, field) ==
    Then(ParseItem(this, tk, msg, field), LAMBDA item :
    With(tryConsume(item.tk, <<"]">>), LAMBDA e :
        IF e.val THEN PRet(e.tk, item.msg)
        ELSE Try(consume(e.tk, <<",">>), item.msg, LAMBDA c :
                 ParseItems(this, c.tk, item.msg, field))))

parseList(this, tk, msg, field) ==
    With(tryConsume(tk, <<"]">>), LAMBDA e :
        IF e.val THEN PRet(e.tk, msg) ELSE ParseItems(this, e.tk, msg, field))

\* The value of a field, behind its name and colon: a list, when the field
\* is a map or is repeated and a "[" follows (an array is made for a
\* repeated field that has none), else a single item.
FieldValue(this, tk, msg, field) ==
    With(IF field.map \/ field.repeated THEN tryConsume(tk, <<"[">>)
         ELSE Ret(tk, FALSE), LAMBDA b :
        IF b.val
        THEN parseList(this, b.tk,
                       IF ~field.map /\ ~isArray(Get(msg, field.name))
                       THEN Set(msg, field.name, ArrayV(<<>>)) ELSE msg,
                       field)
        ELSE ParseItem(this, b.tk, msg, field))

\* The colon behind the name of a field: it may be left out before a map
\* entry or a message.
\* A colon that no field requires.
ColonOptional(tk, field) == tryConsume(tk, <<":">>)

Colon(tk, field) ==
    IF field.map \/ (field.resolvedType # <<>> /\ ~IsEnumField(field))
    THEN tryConsume(tk, <<":">>)
    ELSE consume(tk, <<":">>)

\* A mergeField that returns without consuming a token.
MergeNothing(this, tk, msg) == PRet(tk, msg)

mergeField(this, tk, msg) ==
    Try(ResolveField(this, tk, msg), msg, LAMBDA res :
        IF res.val.field = <<>>
        THEN IF this.allowUnknownField
             THEN Try(skipFieldContents(res.tk), msg, LAMBDA sk : PRet(sk.tk, msg))
             ELSE PRaise(res.tk, msg, parseErrorPreviousToken(res.tk,
                      Msg("Message type \"%s\" has no field named \"%s\".",
                          <<Chars(msg.type), res.val.fieldName>>)))
        ELSE
    Try(Colon(res.tk, res.val.field[1]), msg, LAMBDA c :
    Then(FieldValue(this, c.tk, msg, res.val.field[1]), LAMBDA value :
        PRet(tryConsume(value.tk, <<",">>).tk, value.msg))))
-----------------------------------------------------------------------------
(* The calls of parse that are explored                                    *)
(*                                                                         *)
(* A text is made of fragments, each a field (or a line) in the text       *)
(* format, joined by a separator.  A fragment carries, next to its source  *)
(* text, what the text format says it means, written down by hand: the     *)
(* properties below compare what the parser did with that.  The fragments  *)
(* come in families, one for each aspect of the parser.                    *)

\* The most fragments in a text of the families of independent fragments.
MaxFrags == 2
\* The most occurrences of the repeated field in a text of its family.
MaxRun == 4
\* The most occurrences of the field in a text of the families of the
\* singular message field and of the map field.
MaxEntries == 3
\* The most lines in a text of the family of erroneous lines.
MaxLines == 3
\* The most digits of an integer literal, behind its prefix.
MaxDigits == 2

\* The sequences of at most n elements of S.
SeqsUpTo(S, n) == UNION {[1..k -> S] : k \in 0..n}

RECURSIVE Join(_, _)
Join(srcs, sep) ==
    IF srcs = <<>> THEN <<>>
    ELSE IF Len(srcs) = 1 THEN srcs[1]
    ELSE srcs[1] \o sep \o Join(Tail(srcs), sep)

IntV(n) == NumInt(FALSE, Dec(n))
StrV(str) == StringV(Codes(Chars(str)))

\* Blank lines: white space and comments only.
BLANK_FRAGS ==
    {[src |-> Chars(str)] :
        str \in {"", " ", "\t \r", "# comment", "  # string_field: \"x\"", "#"}}

\* Occurrences of the repeated scalar field repeated_int32, with the values
\* each holds.
REPEATED_FRAGS ==
    {[src |-> Chars("repeated_int32: 1"), vals |-> <<IntV(1)>>],
     [src |-> Chars("repeated_int32: 2"), vals |-> <<IntV(2)>>],
     [src |-> Chars("repeated_int32: [3,4]"), vals |-> <<IntV(3), IntV(4)>>],
     [src |-> Chars("repeated_int32: 5"), vals |-> <<IntV(5)>>]}

\* Occurrences of the singular message field nested_message, with the
\* sub-fields each sets.
MESSAGE_FRAGS ==
    {[src |-> Chars("nested_message { value: \"a\" }"), sets |-> ("value" :> StrV("a"))],
     [src |-> Chars("nested_message { number: 1 }"), sets |-> ("number" :> IntV(1))],
     [src |-> Chars("nested_message: < number: 2 value: 'b' >"),
      sets |-> ("number" :> IntV(2)) @@ ("value" :> StrV("b"))],
     [src |-> Chars("nested_message {}"), sets |-> Empty]}

\* Occurrences of the map field string_int_map, with the entries of each in
\* the order of the text.
MAP_FRAGS ==
    {[src |-> Chars("string_int_map {key:\"k1\" value:1}"), entries |-> <<<<"k1", IntV(1)>>>>],
     [src |-> Chars("string_int_map {key:\"k2\" value:2}"), entries |-> <<<<"k2", IntV(2)>>>>],
     [src |-> Chars("string_int_map {key:\"k1\" value:9}"), entries |-> <<<<"k1", IntV(9)>>>>],
     [src |-> Chars("string_int_map: < value: 3, key: 'k2' >"), entries |-> <<<<"k2", IntV(3)>>>>],
     [src |-> Chars("string_int_map: [{key: 'k3' value: 4}, {key: 'k1' value: 5}]"),
      entries |-> <<<<"k3", IntV(4)>>, <<"k1", IntV(5)>>>>]}

\* Fields that TestMessage declares (what each writes) and fields that no
\* schema declares (unknown: the name), with values of every shape.
KNOWN_FRAG == [src |-> Chars("string_field: \"y\""), unknown |-> "",
               field |-> "stringField", value |-> StrV("y")]

UNKNOWN_FRAGS ==
    {[src |-> Chars(str), unknown |-> "unknown_field", field |-> "", value |-> Undefined] :
        str \in {"unknown_field: \"x\"",
                 "unknown_field: 'a' \"b\"",
                 "unknown_field: -1.5e3",
                 "unknown_field: SOME_NAME",
                 "unknown_field: [1, \"two\", {three: 3}]",
                 "unknown_field { a: 1 b < c: \"}\" > }",
                 "unknown_field: < string_field: \"z\"; >"}}
    \cup {KNOWN_FRAG}

\* Fields named by an extension that no pool resolves, or that the pool of
\* the schema resolves to a type, which is not a field.
EXTENSION_FRAGS ==
    {[src |-> Chars(str), unknown |-> "", field |-> "", value |-> Undefined] :
        str \in {"[a.b.c]: 1", "[a.b] { x: 1 }", "[ext]: \"s\"", "[test.TestMessage]: 1"}}
    \cup {KNOWN_FRAG}

\* Fields named by a number: the tag, and what the field of that tag, if
\* there is one, is set to.
NUMBER_FRAGS ==
    {[src |-> Chars("1: \"v\""), unknown |-> "1", tag |-> 1, field |-> "stringField", value |-> StrV("v")],
     [src |-> Chars("002: 7"), unknown |-> "002", tag |-> 2, field |-> "int32Field", value |-> IntV(7)],
     [src |-> Chars("14: true"), unknown |-> "14", tag |-> 14, field |-> "boolField", value |-> BoolV(TRUE)],
     [src |-> Chars("99: 1"), unknown |-> "99", tag |-> 99, field |-> "", value |-> Undefined],
     [src |-> Chars("string_field: \"y\""), unknown |-> "", tag |-> 0,
      field |-> "stringField", value |-> StrV("y")]}

\* Lines, right and wrong.  kind tells what is wrong: an undeclared name
\* (which starts at column col), an enum name that does not exist, a message
\* that is left open, or something else.
ERROR_FRAGS ==
    {[src |-> Chars(""), kind |-> "ok", col |-> 0],
     [src |-> Chars("    string_field: \"ok\""), kind |-> "ok", col |-> 0],
     [src |-> Chars("    invalid here"), kind |-> "undeclared", col |-> 5],
     [src |-> Chars("int32_field: 1 nope: 2"), kind |-> "undeclared", col |-> 16],
     [src |-> Chars("  int32_field: x"), kind |-> "other", col |-> 0],
     [src |-> Chars("string_field: \"abc"), kind |-> "other", col |-> 0],
     [src |-> Chars("enum_field: NOPE"), kind |-> "enum", col |-> 0],
     [src |-> Chars("nested_message { value: \"u\""), kind |-> "open", col |-> 0]}

\* Values in which a ParseError is raised, in the places where the parser
\* has a catch block around the parsing of the value.
CAUGHT_FRAGS ==
    {[src |-> Chars(str)] :
        str \in {"int_message_map { key: 1 value { bogus: 1 } }",
                 "int_message_map { key: 1 value { number: x } }",
                 "int_message_map { key: 1 value: { number: 2 } }",
                 "string_int_map { key: \"a\" value: x }",
                 "unknown_field: \"\\Uzz\"",
                 "unknown_field: [1, 'a' \"\\Uzz\"]",
                 "string_field: \"\\Uzz\"",
                 "string_field: \"y\""}}

\* The integer fields, by the name of their type, and the integer literals:
\* a sign, a prefix that tells the radix, and digits.
INTEGER_TYPES ==
    {"int32", "sint32", "sfixed32", "uint32", "fixed32",
     "int64", "sint64", "sfixed64", "uint64", "fixed64"}

LITERAL_DIGITS == {"0", "7", "9", "A", "f"}

\* Digits of literals beyond 2^53: in radix 16 the first, and in radix 8 the
\* second, is 2^53 + 1.
LONG_DIGITS == {Chars("20000000000001"), Chars("400000000000000001")}

Literals ==
    {l \in [neg : BOOLEAN, prefix : {"", "0", "0x", "0X"},
            digits : (SeqsUpTo(LITERAL_DIGITS, MaxDigits) \ {<<>>}) \cup LONG_DIGITS] :
        /\ l.prefix \in {"0x", "0X"} \/ AllIn(l.digits, DIGITS)
        /\ l.prefix = "" => l.digits[1] # "0" \/ Len(l.digits) = 1}

LiteralText(l) == (IF l.neg THEN <<"-">> ELSE <<>>) \o Chars(l.prefix) \o l.digits

INTEGER_FRAGS ==
    {[src |-> Chars(type) \o Chars("_field: ") \o LiteralText(l),
      field |-> type \o "Field", type |-> type, literal |-> l] :
        type \in INTEGER_TYPES, l \in Literals}

\* Occurrences of the singular field bool_field, with the token that stands
\* for the value: the eight tokens of consumeBool, tokens next to them, and
\* no token at all.
BOOL_FRAGS ==
    {[src |-> Chars("bool_field: ") \o Chars(str), tok |-> Chars(str)] :
        str \in {"true", "True", "t", "1", "false", "False", "f", "0",
                 "TRUE", "T", "yes", "10", "\"true\"", ""}}

\* Pieces of the payload of one quoted literal, with the code units that each
\* stands for by the table of escapes: a character, the escapes of the
\* table, and a backslash in front of a character that the table does not
\* have.
ESCAPE_FRAGS ==
    {[src |-> Chars("a"), codes |-> <<97>>],
     [src |-> Chars("\\a"), codes |-> <<7>>],
     [src |-> Chars("\\b"), codes |-> <<8>>],
     [src |-> Chars("\\f"), codes |-> <<12>>],
     [src |-> Chars("\\n"), codes |-> <<10>>],
     [src |-> Chars("\\r"), codes |-> <<13>>],
     [src |-> Chars("\\t"), codes |-> <<9>>],
     [src |-> Chars("\\v"), codes |-> <<11>>],
     [src |-> Chars("\\\\"), codes |-> <<92>>],
     [src |-> Chars("\\'"), codes |-> <<39>>],
     [src |-> Chars("\\\""), codes |-> <<34>>],
     [src |-> Chars("\\?"), codes |-> <<63>>],
     [src |-> Chars("\\q"), codes |-> <<113>>],
     [src |-> Chars("\\8"), codes |-> <<56>>]}

\* Pieces of the payload of one quoted literal with numeric escapes: octal
\* and hexadecimal escapes of every length, and characters that go on, or do
\* not go on, the digits of an escape in front of them.
NUMERIC_FRAGS ==
    {[src |-> Chars(str)] :
        str \in {"\\0", "\\1", "\\12", "\\123", "\\377",
                 "\\x2", "\\x21", "\\xF", "\\xaB",
                 "3", "4", "8", "g", "Hello"}}

\* Quoted literals, in either quote style, with the code units of the
\* payload of each.
CONCAT_FRAGS ==
    {[src |-> Chars("\"a\""), codes |-> <<97>>],
     [src |-> Chars("\"b\""), codes |-> <<98>>],
     [src |-> Chars("\"ab\""), codes |-> <<97, 98>>],
     [src |-> Chars("'c'"), codes |-> <<99>>],
     [src |-> Chars("\"\""), codes |-> <<>>],
     [src |-> Chars("\"\\n\""), codes |-> <<10>>],
     [src |-> Chars("'d\"e'"), codes |-> <<100, 34, 101>>]}

\* Occurrences of repeated fields in list form, with the number of items of
\* the list: a scalar, an enum and a message field.
LIST_FRAGS ==
    {[src |-> Chars("repeated_int32: []"), field |-> "repeatedInt32", items |-> 0],
     [src |-> Chars("repeated_string: [ ]"), field |-> "repeatedString", items |-> 0],
     [src |-> Chars("repeated_enum: []"), field |-> "repeatedEnum", items |-> 0],
     [src |-> Chars("repeated_nested: []"), field |-> "repeatedNested", items |-> 0],
     [src |-> Chars("repeated_nested []"), field |-> "repeatedNested", items |-> 0],
     [src |-> Chars("repeated_int32: [1]"), field |-> "repeatedInt32", items |-> 1]}

\* Top-level fields between which separators are put: fields that
\* TestMessage declares and fields that it does not, with a scalar, a list
\* and a message for value.
SEPARATOR_FRAGS ==
    {KNOWN_FRAG,
     [src |-> Chars("int32_field: 7"), unknown |-> "",
      field |-> "int32Field", value |-> IntV(7)]}
    \cup
    {[src |-> Chars(str), unknown |-> "unknown_field", field |-> "", value |-> Undefined] :
        str \in {"unknown_field: \"x\"", "unknown_field: [1, 2]", "unknown_field { a: 1 }"}}

\* Message bodies and map entries in either style of delimiters: p is the
\* pair around the outer body; a body inside it has the other style.  tpl
\* tells the field; matched, that every body is closed in the style that
\* opened it.
STYLES == {<<"{", "}">>, <<"<", ">">>}
MISMATCHED == {<<"{", ">">>, <<"<", "}">>}

\* The pair around a body inside a body that p opens: of the other style.
Inner(p) == IF p[1] = "{" THEN <<"<", ">">> ELSE <<"{", "}">>

DELIMITER_FRAGS ==
    {[src |-> Chars("nested_message ") \o <<p[1]>> \o Chars(" value: \"a\" number: 1 ") \o <<p[2]>>,
      tpl |-> "message", matched |-> p \in STYLES] : p \in STYLES \cup MISMATCHED}
    \cup
    {[src |-> Chars("string_int_map ") \o <<p[1]>> \o Chars("key: \"k\" value: 1") \o <<p[2]>>,
      tpl |-> "map", matched |-> TRUE] : p \in STYLES}
    \cup
    {[src |-> Chars("repeated_nested: [") \o <<p[1]>> \o Chars(" number: 2 ") \o <<p[2]>>
              \o Chars(", ") \o <<p[1], p[2]>> \o Chars("]"),
      tpl |-> "list", matched |-> TRUE] : p \in STYLES}
    \cup
    {[src |-> Chars("int_message_map ") \o <<p[1]>> \o Chars("key: 1 value ") \o <<Inner(p)[1]>>
              \o Chars(" number: 2 ") \o <<Inner(p)[2]>> \o Chars(" ") \o <<p[2]>>,
      tpl |-> "map of messages", matched |-> TRUE] : p \in STYLES}
    \cup
    {[src |-> Chars("unknown_field ") \o <<p[1]>> \o Chars(" a: 1 b ") \o <<Inner(p)[1]>>
              \o Chars(" c: \"}\" ") \o <<Inner(p)[2]>> \o Chars(" ") \o <<p[2]>>,
      tpl |-> "unknown", matched |-> p \in STYLES] : p \in STYLES \cup MISMATCHED}

\* Fields of every shape with the colon behind the name and without it
\* (sepr is what stands between name and value): what the field is given,
\* whether the value is appended to it, and whether its shape, scalar or
\* enum, requires the colon.
ColonFrag(name, sepr, val, field, value, append, required) ==
    [src |-> Chars(name) \o Chars(sepr) \o Chars(val), name |-> Chars(name),
     colon |-> sepr # " ", field |-> field, value |-> value,
     append |-> append, required |-> required]

COLON_FRAGS ==
    UNION {
        {ColonFrag("int32_field", c, "1", "int32Field", IntV(1), FALSE, TRUE),
         ColonFrag("string_field", c, "\"x\"", "stringField", StrV("x"), FALSE, TRUE),
         ColonFrag("enum_field", c, "ENUM_VALUE_ONE", "enumField", IntV(1), FALSE, TRUE),
         ColonFrag("repeated_int32", c, "[2]", "repeatedInt32", IntV(2), TRUE, TRUE),
         ColonFrag("nested_message", c, "{ number: 1 }", "nestedMessage",
                   MessageV("created", NESTED_MESSAGE, "number" :> IntV(1)), FALSE, FALSE),
         ColonFrag("repeated_nested", c, "[<>]", "repeatedNested",
                   MessageV("created", NESTED_MESSAGE, Empty), TRUE, FALSE),
         ColonFrag("string_int_map", c, "{ key: \"k\" value: 1 }", "stringIntMap",
                   ObjectV(Codes(Chars("k")) :> IntV(1)), FALSE, FALSE)} :
        c \in {": ", " "}}

\* Occurrences of the enum fields: the values that the tokens denote, in
\* the order of the text, up to a symbolic name that TestEnum does not
\* declare (bad: the name), if there is one.
EnumFrag(str, field, vals, bad) ==
    [src |-> Chars(str), field |-> field, vals |-> vals, bad |-> bad]

ENUM_FRAGS ==
    {EnumFrag("enum_field: ENUM_VALUE_ZERO", "enumField", <<IntV(0)>>, <<>>),
     EnumFrag("enum_field: ENUM_VALUE_TWO", "enumField", <<IntV(2)>>, <<>>),
     EnumFrag("enum_field: NEGATIVE_VALUE", "enumField", <<NumInt(TRUE, <<1>>)>>, <<>>),
     EnumFrag("enum_field: 1", "enumField", <<IntV(1)>>, <<>>),
     EnumFrag("enum_field: 7", "enumField", <<IntV(7)>>, <<>>),
     EnumFrag("enum_field: -1", "enumField", <<NumInt(TRUE, <<1>>)>>, <<>>),
     EnumFrag("enum_field: -5", "enumField", <<NumInt(TRUE, <<5>>)>>, <<>>),
     EnumFrag("enum_field: 017", "enumField", <<IntV(15)>>, <<>>),
     EnumFrag("enum_field: -017", "enumField", <<NumInt(TRUE, <<1, 5>>)>>, <<>>),
     EnumFrag("enum_field: 0x1F", "enumField", <<IntV(31)>>, <<>>),
     EnumFrag("enum_field: -0X1f", "enumField", <<NumInt(TRUE, <<3, 1>>)>>, <<>>),
     EnumFrag("enum_field: NOPE", "enumField", <<>>, <<Chars("NOPE")>>),
     EnumFrag("enum_field: enum_value_one", "enumField", <<>>, <<Chars("enum_value_one")>>),
     EnumFrag("repeated_enum: ENUM_VALUE_ONE", "repeatedEnum", <<IntV(1)>>, <<>>),
     EnumFrag("repeated_enum: [ENUM_VALUE_TWO, 3]", "repeatedEnum", <<IntV(2), IntV(3)>>, <<>>),
     EnumFrag("repeated_enum: [-2, ENUM_VALUE]", "repeatedEnum",
              <<NumInt(TRUE, <<2>>)>>, <<Chars("ENUM_VALUE")>>),
     EnumFrag("repeated_enum: NOPE", "repeatedEnum", <<>>, <<Chars("NOPE")>>)}

\* Pieces of text for the tokenizer alone: identifiers, numbers, quoted
\* strings with and without their closing quote, punctuation, white space,
\* a comment and an empty line.  Joined without a separator they also make tokens such as
\* abc12 and 12abc.
TOKEN_FRAGS ==
    {[src |-> Chars(str)] :
        str \in {"abc", "a+b", "_y :", "1abc", "12", "-1.5", "\"s t\"", "'q#'",
                 "\"open", ":", "1e3", " \t", "# note", "\n"}}

\* Fields of a NestedMessage: they stand in a message body that the text
\* opens and does not close.
EOF_FRAGS == {[src |-> Chars(str)] : str \in {"value: \"a\"", "number: 1"}}

\* The openings of message bodies: of a singular and of a repeated message
\* field and of the message value of a map entry, in both styles.
UNCLOSED ==
    {Chars(str) : str \in {"nested_message { ", "nested_message: < ",
                           "repeated_nested { ", "repeated_nested < ",
                           "int_message_map { key: 1 value { ",
                           "int_message_map < key: 2 value: < "}}

\* Entries of map fields with and without a key subfield: the text, the
\* field, and the keys that the text gives, as property keys.
EntryFrag(str, field, keys) ==
    [src |-> Chars(str), field |-> field, keys |-> {Codes(Chars(k)) : k \in keys}]

ENTRY_FRAGS ==
    {EntryFrag("string_int_map {}", "stringIntMap", {}),
     EntryFrag("string_int_map <>", "stringIntMap", {}),
     EntryFrag("string_int_map { value: 1 }", "stringIntMap", {}),
     EntryFrag("string_int_map { key: \"k\" value: 2 }", "stringIntMap", {"k"}),
     EntryFrag("int_message_map < value { number: 2 } >", "intMessageMap", {}),
     EntryFrag("int_message_map { key: 7 value { number: 2 } }", "intMessageMap", {"7"})}

FragsOf(family) ==
    IF family = "blank" THEN BLANK_FRAGS
    ELSE IF family = "entry" THEN ENTRY_FRAGS
    ELSE IF family = "eof" THEN EOF_FRAGS
    ELSE IF family = "tokens" THEN TOKEN_FRAGS
    ELSE IF family = "repeated" THEN REPEATED_FRAGS
    ELSE IF family = "message" THEN MESSAGE_FRAGS
    ELSE IF family = "map" THEN MAP_FRAGS
    ELSE IF family = "unknown" THEN UNKNOWN_FRAGS
    ELSE IF family = "extension" THEN EXTENSION_FRAGS
    ELSE IF family = "number" THEN NUMBER_FRAGS
    ELSE IF family = "error" THEN ERROR_FRAGS
    ELSE IF family = "caught" THEN CAUGHT_FRAGS
    ELSE IF family = "bool" THEN BOOL_FRAGS
    ELSE IF family = "escape" THEN ESCAPE_FRAGS
    ELSE IF family = "numeric" THEN NUMERIC_FRAGS
    ELSE IF family = "concat" THEN CONCAT_FRAGS
    ELSE IF family = "list" THEN LIST_FRAGS
    ELSE IF family = "separator" THEN SEPARATOR_FRAGS
    ELSE IF family = "delimiter" THEN DELIMITER_FRAGS
    ELSE IF family = "colon" THEN COLON_FRAGS
    ELSE IF family = "enum" THEN ENUM_FRAGS
    ELSE INTEGER_FRAGS

FAMILIES ==
    {"blank", "repeated", "message", "map", "unknown", "extension", "number",
     "error", "caught", "integer", "bool", "escape", "numeric",
     "concat", "list", "separator", "delimiter", "colon",
     "enum", "eof", "entry"}

\* The texts of a family: how many fragments, and what joins them.
MaxOf(family) ==
    IF family = "repeated" THEN MaxRun
    ELSE IF family \in {"message", "map"} THEN MaxEntries
    ELSE IF family \in {"blank", "error"} THEN MaxLines
    ELSE IF family = "integer" THEN 1
    ELSE MaxFrags

SepsOf(family) ==
    IF family \in {"blank", "error"} THEN {<<"\n">>}
    ELSE IF family \in {"repeated", "unknown", "bool"} THEN {<<" ">>, <<"\n">>}
    ELSE IF family \in {"escape", "numeric"} THEN {<<>>}
    ELSE IF family = "tokens" THEN {<<>>, <<"\n">>}
    ELSE IF family = "concat" THEN {<<>>, <<" ">>, <<"\n">>, Chars(" # \"x\"\n\t")}
    ELSE IF family = "separator"
    THEN {<<" ">>, <<",">>, Chars(" , "), Chars("  # c\n"), Chars(", # c\n")}
    ELSE {<<" ">>}

\* What ends the text: the lines of the family of erroneous lines are also
\* tried with a line terminator behind the last.
EndsOf(family) ==
    IF family = "error" THEN {<<>>, <<"\n">>}
    ELSE IF family = "escape" THEN {<<>>, <<"\"">>, Chars("\nint32_field: 1")}
    ELSE IF family = "numeric" THEN {<<"\"">>}
    ELSE IF family = "separator" THEN {<<>>, <<",">>}
    ELSE IF family = "eof" THEN {<<>>, <<"\n">>, Chars(" # c")}
    ELSE {<<>>}

\* What the text starts with: the pieces of a payload stand behind the name
\* of a string or bytes field and an opening quote.
HeadsOf(family) ==
    IF family = "escape"
    THEN {Chars("string_field: \""), Chars("string_field: '"), Chars("bytes_field: \"")}
    ELSE IF family = "numeric"
    THEN {Chars("string_field: \""), Chars("bytes_field: \"")}
    ELSE IF family = "concat"
    THEN {Chars("string_field: "), Chars("bytes_field: ")}
    ELSE IF family = "eof" THEN UNCLOSED
    ELSE {<<>>}

InputsOf(family) ==
    [family : {family}, frags : SeqsUpTo(FragsOf(family), MaxOf(family)),
     sep : SepsOf(family), end : EndsOf(family), head : HeadsOf(family)]

TextOf(inp) ==
    inp.head \o Join([i \in 1..Len(inp.frags) |-> inp.frags[i].src], inp.sep) \o inp.end

\* The options of a call: the options that matter to the family take every
\* value; no options at all is the function without a domain.
OptionsOf(family) ==
    IF family = "blank"
    THEN {Empty, [allowUnknownField |-> TRUE, allowUnknownExtension |-> TRUE,
                  allowFieldNumber |-> TRUE, descriptorPool |-> "root"]}
    ELSE IF family \in {"unknown", "caught", "separator"}
    THEN [allowUnknownField : BOOLEAN]
    ELSE IF family = "extension"
    THEN [allowUnknownExtension : BOOLEAN, allowUnknownField : BOOLEAN,
          descriptorPool : {"default", "root"}]
    ELSE IF family = "number"
    THEN [allowFieldNumber : BOOLEAN, allowUnknownField : BOOLEAN]
    ELSE IF family = "delimiter"
    THEN {[allowUnknownField |-> TRUE]}
    ELSE {Empty}

\* The target messages: one without any property, and one where the caller
\* has set fields of every kind.
EmptyTarget == MessageV("target", TEST_MESSAGE, Empty)

PopulatedTarget ==
    MessageV("target", TEST_MESSAGE,
        ("stringField" :> StrV("old"))
        @@ ("repeatedInt32" :> ArrayV(<<IntV(7), IntV(8)>>))
        @@ ("nestedMessage" :> MessageV("sub", NESTED_MESSAGE,
                ("value" :> StrV("p")) @@ ("number" :> IntV(9))))
        @@ ("stringIntMap" :> ObjectV((Codes(Chars("k0")) :> IntV(5))
                                      @@ (Codes(Chars("k1")) :> IntV(7)))))

TargetsOf(family) ==
    IF family \in {"blank", "repeated", "message", "map"}
    THEN {EmptyTarget, PopulatedTarget}
    ELSE {EmptyTarget}

-----------------------------------------------------------------------------
(* The state machine: a call of parse(text, message, options)              *)

NoTokenizer == <<>>

Init ==
    /\ \E family \in FAMILIES : input \in InputsOf(family)
    /\ text = TextOf(input)
    /\ options \in OptionsOf(input.family)
    /\ before \in TargetsOf(input.family)
    /\ message = before
    /\ tokenizer = NoTokenizer
    /\ pc = "call"
    /\ returned = <<>>
    /\ error = <<>>

\* parse is called: the Parser is constructed, the text is split into lines
\* and parseLines constructs the Tokenizer, which reads the first token.
Call ==
    /\ pc = "call"
    /\ tokenizer' = Tokenizer(SplitLines(text))
    /\ pc' = "parsing"
    /\ UNCHANGED <<input, text, options, before, message, returned, error>>

\* One iteration of the loop of parseLines: mergeField merges a field into
\* the message, or throws, which ends the call.
MergeTopField ==
    /\ pc = "parsing"
    /\ ~atEnd(tokenizer)
    /\ LET r == mergeField(Parser(options), tokenizer, message)
       IN /\ tokenizer' = r.tk
          /\ message' = r.msg
          /\ error' = r.err
          /\ pc' = IF Threw(r) THEN "thrown" ELSE "parsing"
    /\ UNCHANGED <<input, text, options, before, returned>>

\* The loop of parseLines ends and parse returns the message.
Return ==
    /\ pc = "parsing"
    /\ atEnd(tokenizer)
    /\ returned' = <<message>>
    /\ pc' = "returned"
    /\ UNCHANGED <<input, text, options, before, message, tokenizer, error>>

Next == Call \/ MergeTopField \/ Return

Spec == Init /\ [][Next]_vars

-----------------------------------------------------------------------------
(* The state machine of a Tokenizer on its own: it is constructed over the *)
(* lines of a text and then its methods are called in any order.  Each     *)
(* call leaves in {\em before} the tokenizer it was called on, in         *)
(* {\em message} its argument, in {\em returned} and {\em error} how it *)
(* ended, and in {\em pc} the method's name.                              *)

\* The tokens tryConsume is called with.
TRY_TOKENS == {<<":">>, Chars("abc"), <<>>}

TokInit ==
    /\ input \in InputsOf("tokens")
    /\ text = TextOf(input)
    /\ options = Empty
    /\ before = NoTokenizer
    /\ message = <<>>
    /\ tokenizer = NoTokenizer
    /\ pc = "new"
    /\ returned = <<>>
    /\ error = <<>>

\* new Tokenizer(lines): the constructor reads the first token.
NewTokenizer ==
    /\ pc = "new"
    /\ tokenizer' = Tokenizer(SplitLines(text))
    /\ pc' = "Tokenizer"
    /\ UNCHANGED <<input, text, options, before, message, returned, error>>

\* tokenizer.nextToken()
NextToken ==
    /\ pc # "new"
    /\ before' = tokenizer
    /\ tokenizer' = nextToken(tokenizer)
    /\ message' = <<>>
    /\ returned' = <<>>
    /\ error' = <<>>
    /\ pc' = "nextToken"
    /\ UNCHANGED <<input, text, options>>

\* tokenizer.tryConsume(token)
TryConsume ==
    /\ pc # "new"
    /\ \E token \in TRY_TOKENS :
          LET r == tryConsume(tokenizer, token)
          IN /\ before' = tokenizer
             /\ tokenizer' = r.tk
             /\ message' = token
             /\ returned' = <<r.val>>
             /\ error' = r.err
    /\ pc' = "tryConsume"
    /\ UNCHANGED <<input, text, options>>

\* tokenizer.consumeIdentifier(): it returns the token or throws.
ConsumeIdentifier ==
    /\ pc # "new"
    /\ LET r == consumeIdentifier(tokenizer)
       IN /\ before' = tokenizer
          /\ tokenizer' = r.tk
          /\ returned' = IF Threw(r) THEN <<>> ELSE <<r.val>>
          /\ error' = r.err
    /\ message' = <<>>
    /\ pc' = "consumeIdentifier"
    /\ UNCHANGED <<input, text, options>>

\* The methods that consume an integer.
INT_CONSUMERS == {"consumeInt32", "consumeUint32", "consumeInt64", "consumeUint64"}

\* tokenizer.consumeInt32(), consumeUint32(), consumeInt64() or
\* consumeUint64(): it returns the integer or throws.
ConsumeInt ==
    /\ pc # "new"
    /\ \E method \in INT_CONSUMERS :
          LET r == IF method = "consumeInt32" THEN consumeInt32(tokenizer)
                   ELSE IF method = "consumeUint32" THEN consumeUint32(tokenizer)
                   ELSE IF method = "consumeInt64" THEN consumeInt64(tokenizer)
                   ELSE consumeUint64(tokenizer)
          IN /\ before' = tokenizer
             /\ tokenizer' = r.tk
             /\ returned' = IF Threw(r) THEN <<>> ELSE <<r.val>>
             /\ error' = r.err
             /\ pc' = method
    /\ message' = <<>>
    /\ UNCHANGED <<input, text, options>>

TokNext ==
    NewTokenizer \/ NextToken \/ TryConsume \/ ConsumeIdentifier \/ ConsumeInt

TokSpec == TokInit /\ [][TokNext]_vars

-----------------------------------------------------------------------------
(* Properties                                                              *)
(*                                                                         *)
(* What a text means is computed from what its fragments carry, and the    *)
(* properties compare that with what the call did.                         *)

\* An option that is set to true in the options of the call.
Opt(name) == name \in DOMAIN options /\ options[name]

\* The items of the array that a property of a message holds.
FieldItems(m, name) == IF isArray(Get(m, name)) THEN Get(m, name).items ELSE <<>>

\* The entries of the object that a property of a message holds.
FieldEntries(m, name) == IF Get(m, name).k = "object" THEN Get(m, name).e ELSE Empty

\* The properties of the message that a property of a message holds.
FieldProperties(m, name) == IF Get(m, name).k = "message" THEN Get(m, name).f ELSE Empty

IsPrefix(s, t) == Len(s) <= Len(t) /\ SubSeq(t, 1, Len(s)) = s

\* The values of the occurrences of a repeated field, in the order of the text.
RECURSIVE AllVals(_)
AllVals(frags) ==
    IF frags = <<>> THEN <<>> ELSE frags[1].vals \o AllVals(Tail(frags))

\* The sub-fields of a message after the occurrences of a message field:
\* each occurrence sets its sub-fields and leaves the others.
RECURSIVE MergedSets(_, _)
MergedSets(f, frags) ==
    IF frags = <<>> THEN f ELSE MergedSets(frags[1].sets @@ f, Tail(frags))

\* The entries of a map after a sequence of <<key, value>>: the last value
\* of a key is the one it holds.
RECURSIVE LastWins(_, _)
LastWins(e, entries) ==
    IF entries = <<>> THEN e
    ELSE LastWins((Codes(Chars(entries[1][1])) :> entries[1][2]) @@ e, Tail(entries))

RECURSIVE AllEntries(_)
AllEntries(frags) ==
    IF frags = <<>> THEN <<>> ELSE frags[1].entries \o AllEntries(Tail(frags))

\* A fragment names a field of the schema: by its name, or by its tag when
\* field numbers are allowed.
Resolves(g) == g.field # "" /\ (g.unknown = "" \/ Opt("allowFieldNumber"))

\* What a text of fields, known and unknown, does to the properties f of the
\* target: the properties written, and the unknown name that ends the call,
\* if one does.
RECURSIVE Outcome(_, _)
Outcome(frags, f) ==
    IF frags = <<>> THEN [f |-> f, unknown |-> <<>>]
    ELSE IF Resolves(frags[1])
    THEN Outcome(Tail(frags), (frags[1].field :> frags[1].value) @@ f)
    ELSE IF Opt("allowUnknownField") THEN Outcome(Tail(frags), f)
    ELSE [f |-> f, unknown |-> <<frags[1].unknown>>]

NoFieldNamed(name) ==
    Msg("Message type \"%s\" has no field named \"%s\".",
        <<Chars(TEST_MESSAGE), Chars(name)>>)

\* The call ended as the outcome says.
EndedAs(o) ==
    /\ pc = "returned" => o.unknown = <<>> /\ returned[1].f = o.f
    /\ pc = "thrown" =>
           /\ o.unknown # <<>>
           /\ message.f = o.f
           /\ error[1].name = "ParseError"
           /\ error[1].message.text = NoFieldNamed(o.unknown[1])

\* C1: parse returns the message object it was given; when the text is
\* empty or holds white space and # comments only, no error is raised and
\* every field of the message keeps the value it had before the call.
ReturnsTheMessageGiven ==
    /\ pc = "returned" => returned = <<message>> /\ returned[1].id = before.id
    /\ input.family = "blank" =>
           /\ pc # "thrown"
           /\ error = <<>>
           /\ message = before
           /\ pc = "returned" => returned = <<before>>

\* Several lines of white space and comments were parsed into a target that
\* had fields set.
BlankTextParsed ==
    /\ pc = "returned"
    /\ input.family = "blank"
    /\ before = PopulatedTarget
    /\ Len(input.frags) >= 2
    /\ \E i \in 1..Len(input.frags) : input.frags[i].src = Chars("  # string_field: \"x\"")
    /\ \E i \in 1..Len(input.frags) : input.frags[i].src = Chars("\t \r")

\* C2: every occurrence of a repeated scalar field, in singular or in list
\* form, appends its values to the field in the order of the text, and the
\* values that the field holds are never removed or reordered.
RepeatedValuesAccumulate ==
    input.family = "repeated" =>
        /\ pc # "thrown"
        /\ IsPrefix(FieldItems(before, "repeatedInt32"), FieldItems(message, "repeatedInt32"))
        /\ IsPrefix(FieldItems(message, "repeatedInt32"),
                    FieldItems(before, "repeatedInt32") \o AllVals(input.frags))
        /\ \A name \in DOMAIN message.f \ {"repeatedInt32"} :
               name \in DOMAIN before.f /\ message.f[name] = before.f[name]
        /\ pc = "returned" =>
               FieldItems(returned[1], "repeatedInt32")
                   = FieldItems(before, "repeatedInt32") \o AllVals(input.frags)

\* x: 1 x: 2 x: [3,4] x: 5 was parsed and gave [1, 2, 3, 4, 5].
MixedRepeatedParsed ==
    /\ pc = "returned"
    /\ before = EmptyTarget
    /\ text = Chars("repeated_int32: 1 repeated_int32: 2 repeated_int32: [3,4] repeated_int32: 5")
    /\ Get(returned[1], "repeatedInt32") = ArrayV(<<IntV(1), IntV(2), IntV(3), IntV(4), IntV(5)>>)

\* C3: the occurrences of a singular message field merge into one
\* sub-message, the one the target holds if it holds one: a sub-field set
\* earlier that a later occurrence does not mention keeps its value, and a
\* sub-message is created only when the field is absent.
MessageFieldMerges ==
    input.family = "message" =>
        /\ pc # "thrown"
        /\ input.frags = <<>> => message = before
        /\ pc = "returned" /\ input.frags # <<>> =>
               /\ Get(returned[1], "nestedMessage").k = "message"
               /\ Get(returned[1], "nestedMessage").id
                      = IF "nestedMessage" \in DOMAIN before.f
                        THEN before.f["nestedMessage"].id ELSE "created"
               /\ FieldProperties(returned[1], "nestedMessage")
                      = MergedSets(FieldProperties(before, "nestedMessage"), input.frags)

\* Two occurrences that set different sub-fields were merged into the
\* sub-message that the target held, and one of its sub-fields was kept.
SubMessageMerged ==
    /\ pc = "returned"
    /\ input.family = "message"
    /\ before = PopulatedTarget
    /\ Len(input.frags) = 2
    /\ input.frags[1].sets = ("value" :> StrV("a"))
    /\ input.frags[2].sets = Empty
    /\ Get(returned[1], "nestedMessage")
           = MessageV("sub", NESTED_MESSAGE, ("value" :> StrV("a")) @@ ("number" :> IntV(9)))

\* C4: after any sequence of entries a map field holds, for each key, the
\* value of the last entry parsed with that key, and the entries of other
\* keys are kept.
MapHoldsLastValue ==
    input.family = "map" =>
        /\ pc # "thrown"
        /\ pc = "returned" =>
               FieldEntries(returned[1], "stringIntMap")
                   = LastWins(FieldEntries(before, "stringIntMap"), AllEntries(input.frags))

\* {key:"k1" value:1}, {key:"k2" value:2}, {key:"k1" value:9} were parsed
\* and gave {k1: 9, k2: 2}.
MapEntryReplaced ==
    /\ pc = "returned"
    /\ input.family = "map"
    /\ before = EmptyTarget
    /\ Len(input.frags) = 3
    /\ AllEntries(input.frags) = << <<"k1", IntV(1)>>, <<"k2", IntV(2)>>, <<"k1", IntV(9)>> >>
    /\ Get(returned[1], "stringIntMap")
           = ObjectV((Codes(Chars("k1")) :> IntV(9)) @@ (Codes(Chars("k2")) :> IntV(2)))

\* C5: with allowUnknownField a field that the schema does not declare is
\* skipped with its whole value, nothing is raised, nothing is written for
\* it and the fields behind it are parsed; without the option the first
\* such field raises Message type "FQN" has no field named "X".
UnknownFieldsSkipped ==
    input.family = "unknown" => EndedAs(Outcome(input.frags, before.f))

\* unknown_field: "x" followed by string_field: "y" was parsed with the
\* option and left string_field = "y".
UnknownFieldSkipped ==
    /\ pc = "returned"
    /\ input.family = "unknown"
    /\ Opt("allowUnknownField")
    /\ text = Chars("unknown_field: \"x\" string_field: \"y\"")
    /\ returned[1].f = ("stringField" :> StrV("y"))

\* C6: with allowUnknownExtension an extension name that the pool does not
\* resolve to a field is skipped and nothing is raised, whatever the other
\* options are.
UnknownExtensionsSkipped ==
    input.family = "extension" /\ Opt("allowUnknownExtension") => pc # "thrown"

\* C7: a field name of decimal digits names the field of that tag if and
\* only if allowFieldNumber is set; without it the name is an unknown field
\* name, which raises the no-field-named error unless allowUnknownField is
\* set.
FieldNumbersByOption ==
    input.family = "number" => EndedAs(Outcome(input.frags, before.f))

\* 002: 7 set the field of tag 2 in one call, and in another call, without
\* the option, a field number was an unknown name.
FieldNumberResolved ==
    /\ input.family = "number"
    /\ \/ /\ pc = "returned"
          /\ Opt("allowFieldNumber") /\ ~Opt("allowUnknownField")
          /\ text = Chars("002: 7 14: true")
          /\ returned[1].f = ("int32Field" :> IntV(7)) @@ ("boolField" :> BoolV(TRUE))
       \/ /\ pc = "thrown"
          /\ ~Opt("allowFieldNumber")
          /\ text = Chars("string_field: \"y\" 14: true")
          /\ error[1].message.text = NoFieldNamed("14")

\* The position of an error is in the text: a line of it, and a column of
\* that line or the one behind its end; the message starts with them.
Positioned(e) ==
    /\ e.line # <<>>
    /\ e.column # <<>>
    /\ e.line[1] \in 1..Len(SplitLines(text))
    /\ e.column[1] \in 1..(Len(SplitLines(text)[e.line[1]]) + 1)
    /\ e.message.loc = <<e.line[1], e.column[1]>>

\* The first line that is wrong, or one more than the number of lines.
FirstWrong(frags) ==
    CHOOSE i \in 1..(Len(frags) + 1) :
        /\ i = Len(frags) + 1 \/ frags[i].kind # "ok"
        /\ \A j \in 1..(i - 1) : frags[j].kind = "ok"

\* When the first wrong line has an undeclared name, the call raises the
\* error of that name, at the line and the column where the name starts.
UndeclaredNameLocated ==
    input.family = "error" /\ FirstWrong(input.frags) <= Len(input.frags) =>
        /\ pc # "returned"
        /\ pc = "thrown" /\ input.frags[FirstWrong(input.frags)].kind = "undeclared" =>
               /\ error[1].name = "ParseError"
               /\ error[1].message.text.kind = "Message type \"%s\" has no field named \"%s\"."
               /\ error[1].line = <<FirstWrong(input.frags)>>
               /\ error[1].column = <<input.frags[FirstWrong(input.frags)].col>>

IsEnumNameError(e) == e.message.text.kind = "Enum type \"%s\" has no value named %s."

\* C8 (as stated): every ParseError that parse raises has a line and a
\* column that are 1-based positions in the text and a message that starts
\* with them; an undeclared field name is reported at the line where it
\* starts.
EveryErrorPositioned ==
    /\ pc = "thrown" /\ error[1].name = "ParseError" => Positioned(error[1])
    /\ UndeclaredNameLocated

\* C8 (amended): every ParseError that parse raises, except the one for an
\* enum value name that the enum does not have, has a line and a column that
\* are 1-based positions in the text (the column at most one behind the end
\* of the line) and a message that starts with them; the error for the enum
\* value name has no line, no column and no position in its message; an
\* undeclared field name is reported at the line where it starts.
ErrorsPositionedButEnumName ==
    /\ pc = "thrown" /\ error[1].name = "ParseError" =>
           IF IsEnumNameError(error[1])
           THEN error[1].line = <<>> /\ error[1].column = <<>> /\ error[1].message.loc = <<>>
           ELSE Positioned(error[1])
    /\ UndeclaredNameLocated

\* An empty line, a line that is right and the line "    invalid here", with
\* a line terminator behind it, raised an error at line 3, column 5.
ThirdLineReported ==
    /\ pc = "thrown"
    /\ text = Chars("\n    string_field: \"ok\"\n    invalid here\n")
    /\ error[1].message.loc = <<3, 5>>
    /\ error[1].message.text = NoFieldNamed("invalid")

\* C9: the error that the caller receives is a ParseError and the first one
\* raised: no ParseError raised while a value is parsed or skipped is caught
\* and then swallowed or replaced by another.
FirstErrorReachesCaller ==
    input.family = "caught" /\ pc = "thrown" =>
        /\ error[1].name = "ParseError"
        /\ error = tokenizer.raised

\* The radix that the text of a literal tells, and the integer it denotes.
RadixOf(l) ==
    IF l.prefix \in {"0x", "0X"} THEN 16
    ELSE IF l.prefix = "0" /\ AllIn(l.digits, OCT_DIGITS) THEN 8
    ELSE 10

Magnitude(l) == FromRadix(l.digits, RadixOf(l), <<0>>)

Is64Bit(type) == type \in {"int64", "sint64", "sfixed64", "uint64", "fixed64"}

\* The magnitude is below 2^31, for a type of 32 bits, or below 2^63.
InRange(type, mag) == Less(mag, ShiftLeft(<<1>>, IF Is64Bit(type) THEN 63 ELSE 31))

\* C10: for every integer type, a literal with the prefix 0x or 0X, behind
\* a - or not, is read as hexadecimal, one with a leading 0 and octal digits
\* only as octal, any other as signed decimal.
LiteralsReadByBase ==
    input.family = "integer" /\ Len(input.frags) = 1 =>
        LET g == input.frags[1]
        IN InRange(g.type, Magnitude(g.literal)) =>
               /\ pc # "thrown"
               /\ pc = "returned" =>
                      Get(returned[1], g.field)
                          = IF Is64Bit(g.type)
                            THEN BigIntV(g.literal.neg, Magnitude(g.literal))
                            ELSE NumInt(g.literal.neg, Magnitude(g.literal))

\* The types without a sign, and the domain of the wire type: a signed type
\* of w bits holds -2^(w-1) .. 2^(w-1) - 1, an unsigned one 0 .. 2^w - 1.
IsUnsigned(type) == type \in {"uint32", "fixed32", "uint64", "fixed64"}

InDomain(type, neg, mag) ==
    LET w == IF Is64Bit(type) THEN 64 ELSE 32
    IN IF mag = <<0>> THEN TRUE
       ELSE IF IsUnsigned(type) THEN ~neg /\ Less(mag, ShiftLeft(<<1>>, w))
       ELSE IF neg THEN ~Less(ShiftLeft(<<1>>, w - 1), mag)
       ELSE Less(mag, ShiftLeft(<<1>>, w - 1))

\* C11: an integer token whose value lies outside the domain of the wire
\* type of its field is rejected with "Couldn't parse integer: <token>" and
\* is never stored in the message: the call does not return, and the error
\* it throws is that one.
OutOfDomainRejected ==
    input.family = "integer" /\ Len(input.frags) = 1 =>
        LET g == input.frags[1]
        IN ~InDomain(g.type, g.literal.neg, Magnitude(g.literal)) =>
               /\ pc # "returned"
               /\ Get(message, g.field) = Undefined
               /\ pc = "thrown" =>
                      error[1].message.text
                          = Msg("Couldn't parse integer: %s", LiteralText(g.literal))

\* C12: for the integer fields of 64 bits, every token that is accepted is
\* stored as exactly the integer the token denotes, in every radix and for
\* both signs, also beyond 2^53.
Accepted64BitExact ==
    input.family = "integer" /\ Len(input.frags) = 1 /\ pc = "returned" =>
        LET g == input.frags[1]
        IN Is64Bit(g.type) =>
               Get(returned[1], g.field) = BigIntV(g.literal.neg, Magnitude(g.literal))

\* The tokens that stand for true and for false.
TRUE_TOKENS == {Chars("true"), Chars("True"), Chars("t"), Chars("1")}
FALSE_TOKENS == {Chars("false"), Chars("False"), Chars("f"), Chars("0")}

\* The first occurrence whose token is none of these, or one more than the
\* number of occurrences.
FirstRejected(frags) ==
    LET R == {i \in 1..Len(frags) : frags[i].tok \notin TRUE_TOKENS \cup FALSE_TOKENS}
    IN IF R = {} THEN Len(frags) + 1 ELSE CHOOSE i \in R : \A j \in R : i <= j

\* The number of characters of the text in front of occurrence i.
RECURSIVE FragStart(_, _)
FragStart(inp, i) ==
    IF i = 1 THEN 0
    ELSE FragStart(inp, i - 1) + Len(inp.frags[i - 1].src) + Len(inp.sep)

\* Where the token behind the colon of occurrence i starts, as the number of
\* characters in front of it: behind the white space and the line breaks
\* that follow the colon, or at the end of the text.
ValueOffset(inp, i) ==
    LET colon == FragStart(inp, i) + Len(Chars("bool_field:"))
    IN colon + RunLen(TextOf(inp), colon + 1, WHITESPACE \cup {"\n"})

\* The line and the column, counted from 1, of the character behind the
\* first n characters of a text.
LineColumn(s, n) ==
    LET B == {k \in 1..n : s[k] = "\n"}
    IN <<1 + Cardinality(B), n + 1 - (IF B = {} THEN 0 ELSE CHOOSE k \in B : \A j \in B : j <= k)>>

\* The token that consumeBool finds behind the colon of occurrence i: the
\* token written there, or the name of the next occurrence, or none.
TokenFound(inp, i) ==
    IF inp.frags[i].tok # <<>> THEN inp.frags[i].tok
    ELSE IF i < Len(inp.frags) THEN Chars("bool_field")
    ELSE <<>>

\* C13: consumeBool returns true for exactly the tokens true, True, t, 1 and
\* false for exactly false, False, f, 0, and for every other token, the
\* empty token at the end of the input included, raises a ParseError at the
\* position of the rejected token.
BoolTokensExact ==
    input.family = "bool" =>
        LET n == FirstRejected(input.frags)
        IN /\ pc = "returned" =>
                  /\ n = Len(input.frags) + 1
                  /\ Get(returned[1], "boolField")
                         = IF input.frags = <<>> THEN Undefined
                           ELSE BoolV(input.frags[Len(input.frags)].tok \in TRUE_TOKENS)
           /\ pc = "thrown" =>
                  /\ n <= Len(input.frags)
                  /\ error[1].name = "ParseError"
                  /\ error[1].message.loc = LineColumn(text, ValueOffset(input, n))
                  /\ error[1].line = <<error[1].message.loc[1]>>
                  /\ error[1].column = <<error[1].message.loc[2]>>
                  /\ error[1].message.text
                         = Msg("Expected \"true\", \"True\", \"t\", 1, or \"false\", \"False\", \"f\", 0; found \"%s\"",
                               TokenFound(input, n))
                  /\ Get(message, "boolField")
                         = IF n = 1 THEN Undefined
                           ELSE BoolV(input.frags[n - 1].tok \in TRUE_TOKENS)

\* True was read as true, and then the end of the input, in place of a
\* token, was rejected where the input ends: line 2, column 13.
EmptyBoolRejected ==
    /\ pc = "thrown"
    /\ text = Chars("bool_field: True\nbool_field: ")
    /\ Get(message, "boolField") = BoolV(TRUE)
    /\ error[1].message.loc = <<2, 13>>

\* The literal of a text of payload pieces: the field it stands behind, and
\* whether the quote that opened it closes it on its line.
LiteralField(inp) ==
    IF StartsWith(inp.head, Chars("bytes_field")) THEN "bytesField" ELSE "stringField"

IsClosed(inp) == inp.end = <<inp.head[Len(inp.head)]>>

\* The value of a string or bytes field that holds these code units.
LiteralValue(inp, codes) ==
    IF LiteralField(inp) = "bytesField"
    THEN BytesV([i \in 1..Len(codes) |-> codes[i] % 256])
    ELSE StringV(codes)

\* The code units of the pieces, one behind the other.
RECURSIVE PieceCodes(_)
PieceCodes(frags) ==
    IF frags = <<>> THEN <<>> ELSE frags[1].codes \o PieceCodes(Tail(frags))

\* C14: in a quoted literal each escape of two characters gives exactly one
\* character, that of the table or, for a character the table does not
\* have, the character itself, and decoding goes on behind the escape: the
\* value stored is the characters of the pieces, in order.
EscapesGiveOneCharacter ==
    input.family = "escape" /\ IsClosed(input) =>
        /\ pc # "thrown"
        /\ pc = "returned" =>
               Get(returned[1], LiteralField(input))
                   = LiteralValue(input, PieceCodes(input.frags))

\* C16: a quoted literal whose line ends before its closing quote is
\* rejected with the ParseError "String missing ending quote" and is never
\* returned as a value, whatever characters and escapes it holds.
UnterminatedRejected ==
    input.family = "escape" /\ ~IsClosed(input) =>
        /\ pc # "returned"
        /\ Get(message, LiteralField(input)) = Undefined
        /\ pc = "thrown" =>
               /\ error[1].name = "ParseError"
               /\ error[1].message.text.kind = "String missing ending quote: %s"

\* The code units that a payload of characters and numeric escapes stands
\* for: behind a backslash, x takes the hexadecimal digits that follow, two
\* at most, and an octal digit takes the octal digits from itself on, three
\* at most; what follows the digits taken is decoded in its turn.
RECURSIVE NumericDecoded(_)
NumericDecoded(s) ==
    IF s = <<>> THEN <<>>
    ELSE IF s[1] # "\\" THEN <<CharCode(s[1])>> \o NumericDecoded(Tail(s))
    ELSE IF s[2] = "x"
    THEN LET k == Min2(2, RunLen(s, 3, HEX_DIGITS))
         IN <<ShortValue(SubSeq(s, 3, 2 + k), 16)>> \o NumericDecoded(SubSeq(s, 3 + k, Len(s)))
    ELSE LET k == Min2(3, RunLen(s, 2, OCT_DIGITS))
         IN <<ShortValue(SubSeq(s, 2, 1 + k), 8)>> \o NumericDecoded(SubSeq(s, 2 + k, Len(s)))

\* The payload of a text of pieces.
Payload(inp) == Join([i \in 1..Len(inp.frags) |-> inp.frags[i].src], inp.sep)

\* C15: a numeric escape is greedy and bounded: an octal escape takes one to
\* three octal digits, a hexadecimal one one or two hexadecimal digits, it
\* gives the one character of that code, and the characters behind the
\* digits taken are decoded as ordinary text.
NumericEscapesGreedy ==
    input.family = "numeric" =>
        /\ pc # "thrown"
        /\ pc = "returned" =>
               Get(returned[1], LiteralField(input))
                   = LiteralValue(input, NumericDecoded(Payload(input)))
        /\ pc = "returned" /\ LiteralField(input) = "stringField" =>
               /\ Payload(input) = Chars("\\1234") => returned[1].f.stringField.s = <<83, 52>>
               /\ Payload(input) = Chars("\\x213") => returned[1].f.stringField.s = <<33, 51>>
               /\ Payload(input) = Chars("\\xFHello")
                      => returned[1].f.stringField.s = <<15, 72, 101, 108, 108, 111>>
               /\ Payload(input) = Chars("\\0") => returned[1].f.stringField.s = <<0>>

\* "\1234" was decoded to the character of code 0x53 and the character 4.
OctalOverflowDecoded ==
    /\ pc = "returned"
    /\ text = Chars("string_field: \"\\1234\"")
    /\ Get(returned[1], "stringField") = StringV(<<83, 52>>)

\* C17: a run of adjacent quoted literals, in either quote style, with white
\* space, comments or line breaks between them or nothing at all, is
\* consumed as one value: the payloads of the literals, decoded, one behind
\* the other; so "a" "b" gives what "ab" gives, as a string and as bytes.
AdjacentLiteralsConcatenate ==
    input.family = "concat" /\ Len(input.frags) >= 1 =>
        /\ pc # "thrown"
        /\ pc = "returned" =>
               Get(returned[1], LiteralField(input))
                   = LiteralValue(input, PieceCodes(input.frags))

\* The literals "a" and "b", a comment and a line break between them, were
\* stored in the bytes field as the octets of "ab".
TwoLiteralsJoined ==
    /\ pc = "returned"
    /\ text = Chars("bytes_field: \"a\" # \"x\"\n\t\"b\"")
    /\ Get(returned[1], "bytesField") = BytesV(<<97, 98>>)

\* C18: a list without items on a repeated field, scalar, enum or message,
\* that the target does not have leaves the field absent: a field that was
\* absent and is given lists without items only is absent from the message
\* returned.
EmptyListLeavesAbsent ==
    input.family = "list" /\ pc = "returned" =>
        \A name \in {input.frags[i].field : i \in 1..Len(input.frags)} :
            /\ Get(before, name) = Undefined
            /\ \A i \in 1..Len(input.frags) :
                   input.frags[i].field = name => input.frags[i].items = 0
            => Get(returned[1], name) = Undefined

\* C19: a "," put directly behind a top-level field, merged or skipped as
\* unknown, and white space or # comments put between tokens, change neither
\* the message that results nor whether parse raises an error: whatever
\* separates and ends the fields, the call ends as the fields alone tell.
SeparatorsChangeNothing ==
    input.family = "separator" /\ Len(input.frags) >= 1 =>
        EndedAs(Outcome(input.frags, before.f))

\* What a body or entry of the template does to the properties f of the
\* message, whatever the style of its delimiters.
BodyEffect(tpl, f) ==
    LET Nested(g) == MessageV("created", NESTED_MESSAGE, g)
        old == IF "repeatedNested" \in DOMAIN f THEN f.repeatedNested.items ELSE <<>>
    IN IF tpl = "message"
       THEN ("nestedMessage" :> Nested(("value" :> StrV("a")) @@ ("number" :> IntV(1)))) @@ f
       ELSE IF tpl = "map"
       THEN ("stringIntMap" :> ObjectV(Codes(Chars("k")) :> IntV(1))) @@ f
       ELSE IF tpl = "list"
       THEN ("repeatedNested" :>
                ArrayV(old \o <<Nested("number" :> IntV(2)), Nested(Empty)>>)) @@ f
       ELSE IF tpl = "map of messages"
       THEN ("intMessageMap" :>
                ObjectV(Codes(Chars("1")) :> Nested("number" :> IntV(2)))) @@ f
       ELSE f

RECURSIVE BodiesEffect(_, _)
BodiesEffect(frags, f) ==
    IF frags = <<>> THEN f
    ELSE BodiesEffect(Tail(frags), BodyEffect(frags[1].tpl, f))

\* C20: a sub-message body, a map entry and the body of an unknown field
\* give the same message and the same success or failure between { } as
\* between < >, and a body is closed by the closing delimiter of the style
\* that opened it only: bodies in matched pairs of either style give what
\* their fields tell, and a body closed in the other style makes parse fail.
DelimitersInterchange ==
    input.family = "delimiter" =>
        LET AllMatched == \A i \in 1..Len(input.frags) : input.frags[i].matched
        IN /\ pc = "returned" =>
                  AllMatched /\ returned[1].f = BodiesEffect(input.frags, before.f)
           /\ pc = "thrown" => ~AllMatched

\* A map entry between < > whose value is a message between { } was stored.
AngleEntryStored ==
    /\ pc = "returned"
    /\ text = Chars("int_message_map <key: 1 value { number: 2 } >")
    /\ "intMessageMap" \in DOMAIN returned[1].f

\* The first field that requires a colon and has none, or one more than the
\* number of fields.
FirstColonMissing(frags) ==
    LET R == {i \in 1..Len(frags) : frags[i].required /\ ~frags[i].colon}
    IN IF R = {} THEN Len(frags) + 1 ELSE CHOOSE i \in R : \A j \in R : i <= j

\* What the first n fields write to the properties f, with a colon or not.
RECURSIVE ColonEffect(_, _, _)
ColonEffect(frags, n, f) ==
    IF n = 0 THEN f
    ELSE LET g == ColonEffect(frags, n - 1, f)
             h == frags[n]
             old == IF h.field \in DOMAIN g THEN g[h.field].items ELSE <<>>
         IN (h.field :> IF h.append THEN ArrayV(Append(old, h.value)) ELSE h.value) @@ g

\* C21: behind a resolved field name the colon is required for scalar and
\* enum fields, where its absence raises Expected ":". at the current token
\* and writes nothing to the target, and optional for message and map
\* fields, which parse to the same result with it and without it.
ColonRequiredForScalars ==
    input.family = "colon" =>
        LET n == FirstColonMissing(input.frags)
        IN /\ pc = "returned" =>
                  /\ n = Len(input.frags) + 1
                  /\ returned[1].f = ColonEffect(input.frags, Len(input.frags), before.f)
           /\ pc = "thrown" =>
                  /\ n <= Len(input.frags)
                  /\ message.f = ColonEffect(input.frags, n - 1, before.f)
                  /\ error[1].name = "ParseError"
                  /\ error[1].message.text = Msg("Expected \"%s\".", <<":">>)
                  /\ error[1].message.loc
                         = <<1, FragStart(input, n) + Len(input.frags[n].name) + 2>>
                  /\ error[1].line = <<1>>
                  /\ error[1].column = <<error[1].message.loc[2]>>

\* A message field without a colon was merged, and the enum field behind
\* it, without a colon, was rejected at its value and left unset.
ColonMissingRejected ==
    /\ pc = "thrown"
    /\ text = Chars("nested_message { number: 1 } enum_field ENUM_VALUE_ONE")
    /\ DOMAIN message.f = {"nestedMessage"}
    /\ error[1].message.loc = <<1, 41>>

\* The first occurrence with an undeclared name, or one more than the
\* number of occurrences.
FirstBadName(frags) ==
    LET R == {i \in 1..Len(frags) : frags[i].bad # <<>>}
    IN IF R = {} THEN Len(frags) + 1 ELSE CHOOSE i \in R : \A j \in R : i <= j

\* The values that the first n occurrences give to the singular enum field
\* (the last is the one it holds) and to the repeated one (its items).
RECURSIVE EnumVals(_, _, _)
EnumVals(frags, n, field) ==
    IF n = 0 THEN <<>>
    ELSE EnumVals(frags, n - 1, field)
             \o (IF frags[n].field = field THEN frags[n].vals ELSE <<>>)

\* The message holds the values of the first n occurrences.
HoldsEnumVals(m, frags, n) ==
    /\ Get(m, "enumField")
           = LET v == EnumVals(frags, n, "enumField")
             IN IF v = <<>> THEN Undefined ELSE v[Len(v)]
    /\ FieldItems(m, "repeatedEnum") = EnumVals(frags, n, "repeatedEnum")

\* C22: an enum field accepts a declared name, stored as the number of the
\* name, and a numeric token, decimal, octal or hexadecimal, negative or
\* not, stored as that number even when no value of the enum has it; a name
\* that the enum does not declare raises a ParseError and stores no value.
EnumNamesAndNumbers ==
    input.family = "enum" =>
        LET n == FirstBadName(input.frags)
        IN /\ pc = "returned" =>
                  /\ n = Len(input.frags) + 1
                  /\ HoldsEnumVals(returned[1], input.frags, Len(input.frags))
           /\ pc = "thrown" =>
                  /\ n <= Len(input.frags)
                  /\ HoldsEnumVals(message, input.frags, n)
                  /\ error[1].name = "ParseError"
                  /\ error[1].message.text
                         = Msg("Enum type \"%s\" has no value named %s.",
                               <<Chars("TestEnum"), input.frags[n].bad[1]>>)

\* -0X1f was stored as -31, a number that no value of the enum has, and the
\* name NOPE behind it was rejected and left it there.
UndeclaredNameRejected ==
    /\ pc = "thrown"
    /\ text = Chars("enum_field: -0X1f enum_field: NOPE")
    /\ Get(message, "enumField") = NumInt(TRUE, <<3, 1>>)

-----------------------------------------------------------------------------
(* The tokenizer on its own                                                *)

\* Where the current token of a tokenizer starts: its line and column.
StartOf(tk) == <<tk.line, tk.column>>

\* p is before q, or is q, in the order of reading.
LexLeq(p, q) == p[1] < q[1] \/ (p[1] = q[1] /\ p[2] <= q[2])

\* A method has been called on the tokenizer: each may call nextToken.
Called == pc \notin {"new", "Tokenizer"}

\* C23: in any sequence of tokenizer operations, a call of nextToken, made
\* directly or by another method of the tokenizer, leaves the current token
\* starting at a (line, column) that is lexicographically greater than or
\* equal to the start of the token that was current before the call.
TokenStartNeverMovesBack ==
    Called => LexLeq(StartOf(before), StartOf(tokenizer))

\* nextToken has moved from a token to one on a later line, which starts at
\* a smaller column.
MovedToLaterLine ==
    /\ pc = "nextToken"
    /\ before.token # <<>>
    /\ tokenizer.token # <<>>
    /\ tokenizer.line > before.line
    /\ tokenizer.column < before.column

\* From its start on, s holds white space and comments only.
RECURSIVE OnlyBlank(_)
OnlyBlank(s) ==
    LET k == RunLen(s, 1, WHITESPACE)
    IN IF k = Len(s) THEN TRUE
       ELSE IF s[k + 1] # "#" THEN FALSE
       ELSE OnlyBlank(Substring(s, k + 1 + RunLen(s, k + 2, ALPHABET \ LINE_TERMINATORS)))

\* Nothing but white space and comments is left in the input from the start
\* of the current token of tk on.
Exhausted(tk) ==
    LET all == SplitLines(text)
    IN /\ OnlyBlank(Substring(all[tk.line + 1], tk.column))
       /\ \A k \in (tk.line + 2)..Len(all) : OnlyBlank(all[k])

\* C24: in every state of a tokenizer, atEnd() is true (the current token is
\* the empty string) exactly when only white space and comment text is left
\* in the input at or after the cursor: an input that is not exhausted never
\* gives an empty current token.
AtEndExactlyWhenExhausted ==
    pc # "new" => (atEnd(tokenizer) <=> Exhausted(tokenizer))

\* The last token was consumed and only a comment, on the next line, was
\* left.
EndedBehindComment ==
    /\ pc = "nextToken"
    /\ before.token # <<>>
    /\ atEnd(tokenizer)
    /\ \E i \in 1..(Len(text) - 1) : text[i] = "\n" /\ text[i + 1] = "#"

\* Every character of s is white space.
AllWhitespace(s) == \A i \in 1..Len(s) : s[i] \in WHITESPACE

\* In the lines all, only white space and comments lie between the position
\* (l1, c1) and the later position (l2, c2), both 0-based.
BlankBetween(all, l1, c1, l2, c2) ==
    IF l1 = l2 THEN AllWhitespace(SubSeq(all[l1 + 1], c1 + 1, c2))
    ELSE /\ OnlyBlank(Substring(all[l1 + 1], c1))
         /\ \A k \in (l1 + 2)..l2 : OnlyBlank(all[k])
         /\ AllWhitespace(SubSeq(all[l2 + 1], 1, c2))

\* The tokenizer t is the tokenizer b advanced by one token: it remembers
\* where the token of b started, and its own token is the first text behind
\* the token of b that is neither white space nor comment, or is empty when
\* there is no such text.
AdvancedOneToken(b, t) ==
    LET all == SplitLines(text)
        col == b.column + Len(b.token)
    IN /\ t.previous_line = b.line
       /\ t.previous_column = b.column
       /\ t.raised = b.raised
       /\ LexLeq(<<b.line, col>>, StartOf(t))
       /\ IF atEnd(t)
          THEN /\ OnlyBlank(Substring(all[b.line + 1], col))
               /\ \A k \in (b.line + 2)..Len(all) : OnlyBlank(all[k])
          ELSE /\ BlankBetween(all, b.line, col, t.line, t.column)
               /\ t.token = SubSeq(all[t.line + 1], t.column + 1, t.column + Len(t.token))
               /\ t.token[1] \notin WHITESPACE \cup {"#"}
               /\ t.current_line = all[t.line + 1]

\* C25: tryConsume(s) with a current token other than s returns false and
\* leaves the whole tokenizer as it was (current token, line, column,
\* previous-token position, remaining lines); with the current token equal
\* to s it returns true and advances by exactly one token.
TryConsumeAllOrNothing ==
    pc = "tryConsume" =>
        /\ error = <<>>
        /\ IF before.token # message
           THEN returned = <<FALSE>> /\ tokenizer = before
           ELSE returned = <<TRUE>> /\ AdvancedOneToken(before, tokenizer)

\* tryConsume(":") consumed the colon and stands on a token of the next
\* line.
ColonConsumed ==
    /\ pc = "tryConsume"
    /\ message = <<":">>
    /\ returned = <<TRUE>>
    /\ tokenizer.token # <<>>
    /\ tokenizer.line > before.line

\* s matches [A-Za-z_][A-Za-z0-9_]* as a whole.
MatchesIdentifier(s) ==
    Len(s) >= 1 /\ s[1] \in IDENT_START /\ \A i \in 2..Len(s) : s[i] \in WORD

\* C26: consumeIdentifier raises "Expected identifier." at the current
\* position, without advancing, whenever the current token as a whole does
\* not match [A-Za-z_][A-Za-z0-9_]* (a number token such as 1abc, a quoted
\* string, an identifier token holding + or -); only a token that matches
\* the pattern in full is returned and consumed.
OnlyIdentifiersConsumed ==
    pc = "consumeIdentifier" =>
        IF MatchesIdentifier(before.token)
        THEN /\ error = <<>>
             /\ returned = <<before.token>>
             /\ AdvancedOneToken(before, tokenizer)
        ELSE /\ returned = <<>>
             /\ error # <<>>
             /\ error[1].message.text = Msg("Expected identifier.", <<>>)
             /\ error[1].line = <<before.line + 1>>
             /\ error[1].column = <<before.column + 1>>
             /\ StartOf(tokenizer) = StartOf(before)
             /\ tokenizer.token = before.token
             /\ tokenizer.lines = before.lines

\* s is a complete integer literal: an optional sign, then decimal digits
\* (a leading 0 makes them octal digits) or 0x or 0X and hexadecimal digits.
IsIntegerLiteral(s) ==
    LET d == IF Len(s) >= 1 /\ s[1] = "-" THEN Tail(s) ELSE s
    IN \/ Len(d) >= 1 /\ AllIn(d, DIGITS) /\ (d[1] = "0" => AllIn(d, OCT_DIGITS))
       \/ /\ Len(d) >= 3
          /\ d[1] = "0"
          /\ d[2] \in {"x", "X"}
          /\ AllIn(SubSeq(d, 3, Len(d)), HEX_DIGITS)

\* C27: consumeInt32, consumeUint32, consumeInt64 and consumeUint64 raise
\* "Couldn't parse integer: <token>" at the start of the rejected token
\* whenever the current token is not a complete integer literal in decimal,
\* octal or hexadecimal form (1.5, 1e3, 12abc, a quoted string, the empty
\* token at the end of the input): no value is derived from a prefix of the
\* token or from an empty token.
OnlyIntegerLiteralsConsumed ==
    (pc \in INT_CONSUMERS /\ ~IsIntegerLiteral(before.token)) =>
        /\ returned = <<>>
        /\ error # <<>>
        /\ error[1].message.text = Msg("Couldn't parse integer: %s", before.token)
        /\ error[1].line = <<before.line + 1>>
        /\ error[1].column = <<before.column + 1>>

-----------------------------------------------------------------------------
(* Message bodies and map entries                                          *)

\* The delimiter that closes the body which the last opening delimiter of
\* s opens.
Closer(s) ==
    LET i == CHOOSE k \in 1..Len(s) :
                 s[k] \in {"{", "<"} /\ \A j \in (k + 1)..Len(s) : s[j] \notin {"{", "<"}
    IN IF s[i] = "{" THEN <<"}">> ELSE <<">">>

\* The 1-based position of the end of the input: behind the last character
\* of its last line.
EndOfInput ==
    LET all == SplitLines(text)
    IN <<Len(all), Len(all[Len(all)]) + 1>>

\* C28: when the input ends inside a {...} or <...> message body, of a
\* singular or repeated message field or of the message value of a map
\* entry, parse raises a ParseError with the message Expected "}" or
\* Expected ">", naming the delimiter that closes that body, at the
\* end-of-input position.
UnclosedBodyReported ==
    (input.family = "eof" /\ pc \in {"returned", "thrown"}) =>
        /\ pc = "thrown"
        /\ error[1].message.text = Msg("Expected \"%s\"", Closer(input.head))
        /\ error[1].line = <<EndOfInput[1]>>
        /\ error[1].column = <<EndOfInput[2]>>

\* The keys that the key subfields of the entries of a map field give in
\* the text.
KeysInText(field) ==
    UNION {input.frags[i].keys :
              i \in {j \in 1..Len(input.frags) : input.frags[j].field = field}}

\* C29: an entry is inserted into a map field only under a key parsed from
\* a key subfield of that same entry: an entry body without a key subfield,
\* in particular the empty body {} or <>, inserts nothing and leaves the map
\* field as it was.
EntriesOnlyUnderParsedKeys ==
    (input.family = "entry" /\ pc = "returned") =>
        \A field \in {"stringIntMap", "intMessageMap"} :
            /\ DOMAIN FieldEntries(message, field) \subseteq KeysInText(field)
            /\ (KeysInText(field) = {} => Get(message, field) = Get(before, field))

-----------------------------------------------------------------------------
(* Termination                                                             *)

\* p is before q in the order of reading.
LexLess(p, q) == LexLeq(p, q) /\ p # q

\* The 0-based position behind the last character of the text.
LastPosition ==
    LET all == SplitLines(text)
    IN <<Len(all) - 1, Len(all[Len(all)])>>

\* The iteration of the loop of parseLines that starts with the tokenizer
\* tk and the message msg raises, or consumes at least one token: it leaves
\* the current token starting later in the text, and not behind the end of
\* the text.
IterationConsumes(tk, msg) ==
    LET r == mergeField(Parser(options), tk, msg)
    IN \/ Threw(r)
       \/ /\ LexLess(StartOf(tk), StartOf(r.tk))
          /\ LexLeq(StartOf(r.tk), LastPosition)

\* C30: for every finite input text and every option setting parse
\* terminates, returning the message or raising.  Until it has ended, the
\* call is in the loop over the top-level fields, and there the text is at
\* its end, so that parse returns, or an iteration follows, which ends (with
\* the loops inside it: message bodies, list items, map-entry subfields,
\* skipped bodies and lists, white space) and consumes at least one token
\* or raises: no call makes more iterations than its text has characters.
ParseTerminates ==
    /\ pc \in {"call", "parsing", "returned", "thrown"}
    /\ (pc = "parsing" /\ ~atEnd(tokenizer)) => IterationConsumes(tokenizer, message)
    /\ pc = "returned" => atEnd(tokenizer)
    /\ pc = "thrown" => error # <<>>

\* A call has returned after it skipped, one after the other, unknown
\* fields with bodies and lists.
SkippedToTheEnd ==
    /\ pc = "returned"
    /\ input.family = "unknown"
    /\ Len(input.frags) = MaxFrags
    /\ \E i \in 1..Len(text) : text[i] = "["
    /\ \E i \in 1..Len(text) : text[i] = "{"
====
